---------------------------- MODULE Spec2Model ----------------------------
(***************************************************************************)
(* A model of adexplorersnapshot-rs: the snapshot object decoder           *)
(* (src/src/parser/parser.rs), the ACE object-type GUID recognition        *)
(* (src/src/guid/guid.rs, src/src/security_descriptor/ace.rs) and the      *)
(* ACE -> BloodHound right translator                                      *)
(* (src/src/output/bloodhound/utils/aces.rs).                              *)
(*                                                                         *)
(* The specifications of the module:                                       *)
(*   SpecRights  Aces::rights applied to one ACE, a target kind, has_laps  *)
(*   SpecAces    Aces::from_security_descriptor applied to one descriptor  *)
(*   SpecParse   Snapshot::snapshot_from_memory, one Object::parse a step  *)
(*   SpecSid     SID::from_bytes, SID::to_string, SID::from_str            *)
(*   SpecAcl     parse_acl, one parse_ace a step                           *)
(*   SpecDnCache DNCache::insert, DNCache::get, DNCache::get_ou_children   *)
(*   SpecCaches  Caches::build_caches and the lookups in the class cache   *)
(* A specification leaves the variables of the others at their idle value. *)
(*                                                                         *)
(* Integers: TLC integers are 32-bit signed.  A u32 that is only formatted *)
(* (GUID.data1) is held as its bytes, most significant first.  Access      *)
(* masks are drawn with bit 31 (GENERIC_READ, which the translator never   *)
(* tests) clear.                                                           *)
(***************************************************************************)
EXTENDS Integers, Sequences, FiniteSets, TLC

VARIABLES
    pc,           \* position of the modelled call: "call", "done", or a parser phase
    ace,          \* SpecRights: the ACE handed to Aces::rights
    object_type,  \* SpecRights, SpecAces: the target object's ObjectType
    has_laps,     \* SpecRights, SpecAces: the has_laps argument
    result,       \* SpecRights: the HashSet<String> returned by Aces::rights
    sd,           \* SpecAces: the SDDL handed to from_security_descriptor
    snapshot,     \* SpecAces: the ADExplorerSnapshot (objects and caches.sid_cache)
    aces,         \* SpecAces: the Vec<Aces> returned by from_security_descriptor
    data,         \* SpecParse: the bytes handed to snapshot_from_memory
    eof_seeks_end,    \* SpecParse: Cursor::read_exact moves to the end on a short read
    cursor,       \* SpecParse: the Cursor's position
    header,       \* SpecParse: the parsed Header, None before it is read
    properties,   \* SpecParse: the Vec<Property>
    offset_properties,  \* SpecParse: the position after the property table
    objects,      \* SpecParse: the Vec<Object> pushed so far
    parsed,       \* SpecParse: the Result<Snapshot> returned, None while running
    input,        \* the input of the modelled call (bytes, a string, a list of files)
    acl_rest,     \* SpecAcl: where nom's remaining input starts
    acl,          \* SpecAcl: the ACL header and the ACEs decoded so far
    outcome,      \* what the decoder or process_outputs returned, None while running
    sid_string,   \* SpecSid: SID::to_string of the decoded SID
    sid_from_str, \* SpecSid: SID::from_str of that string
    dn_cache,     \* SpecDnCache: DNCache.cache
    call,         \* the last call (or the one in progress) and its arguments
    returned,     \* what the last call returned
    archive       \* SpecArchive: the Mutex<Builder> of main.rs and the tar entries written

parse_vars == <<data, eof_seeks_end, cursor, header, properties,
                offset_properties, objects, parsed>>

aux_vars == <<input, acl_rest, acl, outcome, sid_string, sid_from_str,
              dn_cache, call, returned, archive>>

vars == <<pc, ace, object_type, has_laps, result, sd, snapshot, aces, parse_vars,
          aux_vars>>

\* Option<T>: None and Some(v).
None == [some |-> FALSE]
Some(v) == [some |-> TRUE, v |-> v]

\* The parser's variables while another specification runs.
ParseIdle ==
    /\ data = <<>> /\ eof_seeks_end = TRUE /\ cursor = 0
    /\ header = None /\ properties = <<>> /\ offset_properties = 0
    /\ objects = <<>> /\ parsed = None

\* The decoders' and the caches' variables while another specification runs.
AuxIdle ==
    /\ input = <<>> /\ acl_rest = 0 /\ acl = None /\ outcome = None
    /\ sid_string = None /\ sid_from_str = None
    /\ dn_cache = <<>> /\ call = None /\ returned = None /\ archive = None

(***************************************************************************)
(* Bit operations on non-negative integers.                                *)
(***************************************************************************)
RECURSIVE BitAnd(_, _)
BitAnd(x, y) ==
    IF x = 0 \/ y = 0 THEN 0
    ELSE (x % 2) * (y % 2) + 2 * BitAnd(x \div 2, y \div 2)

RECURSIVE SumSet(_)
SumSet(S) ==
    IF S = {} THEN 0
    ELSE LET e == CHOOSE e \in S : TRUE IN e + SumSet(S \ {e})

(***************************************************************************)
(* guid.rs: GUID { data1: u32, data2: u16, data3: u16, data4: [u8; 8] }.   *)
(* data1, data2, data3 are held as their bytes, most significant first.    *)
(***************************************************************************)

\* nom le_u32 / le_u16: the little-endian bytes b of an integer, returned most
\* significant byte first.
le_bytes(b) == [i \in 1..Len(b) |-> b[Len(b) + 1 - i]]

\* parse_guid: le_u32, le_u16, le_u16, take(8); None on a short input.
parse_guid(bytes) ==
    IF Len(bytes) < 16 THEN None
    ELSE Some([data1 |-> le_bytes(SubSeq(bytes, 1, 4)),
               data2 |-> le_bytes(SubSeq(bytes, 5, 6)),
               data3 |-> le_bytes(SubSeq(bytes, 7, 8)),
               data4 |-> SubSeq(bytes, 9, 16)])

\* The digits of {:X}.
UpperHexDigits == <<"0", "1", "2", "3", "4", "5", "6", "7",
                    "8", "9", "A", "B", "C", "D", "E", "F">>

\* {:02X} of one byte.
UpperHexByte(b) == UpperHexDigits[(b \div 16) + 1] \o UpperHexDigits[(b % 16) + 1]

\* {:08X}, {:04X}: zero-padded upper-case hex of an integer given by its bytes.
RECURSIVE UpperHex(_)
UpperHex(b) ==
    IF b = <<>> THEN "" ELSE UpperHexByte(Head(b)) \o UpperHex(Tail(b))

\* GUID::to_string.
GUID_to_string(g) ==
    UpperHex(g.data1) \o "-" \o UpperHex(g.data2) \o "-" \o UpperHex(g.data3)
        \o "-" \o UpperHex(SubSeq(g.data4, 1, 2))
        \o "-" \o UpperHex(SubSeq(g.data4, 3, 8))

(***************************************************************************)
(* ace.rs: ACEGuid::from_guid.  The enum's variants are their names.       *)
(***************************************************************************)
from_guid(g) ==
    LET s == GUID_to_string(g) IN
    CASE s = "1131f6aa-9c07-11d1-f79f-00c04fc2dcd2" -> Some("DSReplicationGetChanges")
      [] s = "1131f6ad-9c07-11d1-f79f-00c04fc2dcd2" -> Some("DSReplicationGetChangesAll")
      [] s = "89e95b76-444d-4c62-991a-0facbeda640c" ->
             Some("DSReplicationGetChangesInFilteredSet")
      [] s = "00299570-246d-11d0-a768-00aa006e0529" -> Some("UserForceChangePassword")
      [] s = "00000000-0000-0000-0000-000000000000" -> Some("AllGuid")
      [] s = "bf9679c0-0de6-11d0-a285-00aa003049e2" -> Some("WriteMember")
      [] s = "3f78c3e5-f79a-46bd-a0b8-9d18116ddc79" -> Some("WriteAllowedToAct")
      [] s = "f3a64788-5306-11d1-a9c5-0000f80367c1" -> Some("WriteSPN")
      [] s = "5b47d60f-6090-40b2-9f37-2a4de88f3063" -> Some("AddKeyPrincipal")
      [] s = "4c164200-20c0-11d0-a768-00aa006e0529" -> Some("UserAccountRestrictions")
      [] s = "ea1dddc4-60ff-416e-8cc0-17cee534bce7" -> Some("PKINameFlag")
      [] s = "d15ef7d8-f226-46db-ae79-b34e560bd12c" -> Some("PKIEnrollmentFlag")
      [] s = "0e10c968-78fb-11d2-90d4-00c04f79dc55" -> Some("Enroll")
      [] s = "a05b8cc2-17bc-4802-a710-e7c15ab866a2" -> Some("AutoEnroll")
      [] OTHER -> None


(***************************************************************************)
(* access_mask.rs: the AccessMask flags the translator tests.              *)
(***************************************************************************)
GENERIC_WRITE == 1073741824
GENERIC_ALL == 268435456
WRITE_OWNER == 524288
WRITE_DACL == 262144
ADS_RIGHT_DS_CONTROL_ACCESS == 256
ADS_RIGHT_DS_WRITE_PROP == 32
ADS_RIGHT_DS_SELF == 8

\* AccessMask::has_flag.
has_flag(mask, flag) == BitAnd(mask, flag) = flag

\* ace.rs: ACEFlags::INHERITED_ACE and ACEFlags::is_set.
INHERITED_ACE == 16

(***************************************************************************)
(* ace.rs: the ACE sum type.  An ACE is a record                           *)
(*   [kind, ace_flags, mask, sid] and, for the *Object kinds, object_type  *)
(* (a GUID or None).                                                       *)
(***************************************************************************)
ObjectAceKinds == {"AccessAllowedObject", "AccessDeniedObject", "SystemAuditObject"}
PlainAceKinds == {"AccessAllowed", "AccessDenied"}

\* ACE::object_type: the GUID of an *Object ACE, None for the other kinds.
ACE_object_type(a) ==
    IF a.kind \in ObjectAceKinds THEN a.object_type ELSE None

\* ACE::object_type_s: `let ot = self.object_type()?; ACEGuid::from_guid(ot)`.
object_type_s(a) ==
    LET ot == ACE_object_type(a) IN
    IF ot = None THEN None ELSE from_guid(ot.v)

\* parser.rs: enum ObjectType.
ObjectTypes == {"Computer", "User", "UserDisabled", "Group", "Domain",
                "OU", "Container", "GPO", "Unknown"}

(***************************************************************************)
(* aces.rs: Aces::rights(ace, object_type, has_laps) -> HashSet<String>.   *)
(***************************************************************************)

\* The statements of Aces::rights after the GenericAll block (aces.rs:87-176):
\* WriteDacl, WriteOwner, AddSelf, the extended rights, GenericWrite and the
\* write-property rights.
rights_after_generic_all(a, ot, laps) ==
    LET ace_mask == a.mask
        ace_type == object_type_s(a)
        writeDacl == IF has_flag(ace_mask, WRITE_DACL) THEN {"WriteDacl"} ELSE {}
        writeOwner == IF has_flag(ace_mask, WRITE_OWNER) THEN {"WriteOwner"} ELSE {}
        addSelf ==
            IF /\ has_flag(ace_mask, ADS_RIGHT_DS_SELF)
               /\ ~has_flag(ace_mask, ADS_RIGHT_DS_WRITE_PROP)
               /\ ~has_flag(ace_mask, GENERIC_WRITE)
               /\ ot = "Group"
               /\ ace_type = Some("WriteMember")
            THEN {"AddSelf"} ELSE {}
        extended ==
            IF ~has_flag(ace_mask, ADS_RIGHT_DS_CONTROL_ACCESS) THEN {}
            ELSE CASE ot = "Domain" ->
                        (CASE ace_type = Some("DSReplicationGetChanges") ->
                                  {"GetChanges"}
                           [] ace_type = Some("DSReplicationGetChangesAll") ->
                                  {"GetChangesAll"}
                           [] ace_type = Some("DSReplicationGetChangesInFilteredSet") ->
                                  {"GetChangesInFilteredSet"}
                           [] ace_type = Some("AllGuid") \/ ace_type = None ->
                                  {"AllExtendedRights"}
                           [] OTHER -> {})
                   [] ot = "User" ->
                        (CASE ace_type = Some("UserForceChangePassword") ->
                                  {"ForceChangePassword"}
                           [] ace_type = Some("AllGuid") \/ ace_type = None ->
                                  {"AllExtendedRights"}
                           [] OTHER -> {})
                   [] ot = "Computer" ->
                        IF laps /\ (ace_type = None \/ ace_type = Some("AllGuid"))
                        THEN {"AllExtendedRights"} ELSE {}
                   [] OTHER -> {}
        genericWrite ==
            IF /\ ot \in {"User", "Group", "Computer", "GPO"}
               /\ (ace_type = None \/ ace_type = Some("AllGuid"))
            THEN {"GenericWrite"} ELSE {}
        specific ==
            CASE ot = "User" /\ ace_type = Some("WriteSPN") -> {"WriteSPN"}
              [] ot = "Computer" /\ ace_type = Some("WriteAllowedToAct") ->
                     {"AddAllowedToAct"}
              [] ot = "Computer" /\ ace_type = Some("UserAccountRestrictions") ->
                     {"WriteAccountRestrictions"}
              [] ot = "Group" /\ ace_type = Some("WriteMember") -> {"AddMember"}
              [] ot \in {"User", "Computer"} /\ ace_type = Some("AddKeyPrincipal") ->
                     {"AddKeyCredentialLink"}
              [] OTHER -> {}
        writeProperty ==
            IF \/ has_flag(ace_mask, GENERIC_WRITE)
               \/ has_flag(ace_mask, ADS_RIGHT_DS_WRITE_PROP)
            THEN genericWrite \cup specific ELSE {}
    IN  writeDacl \cup writeOwner \cup addSelf \cup extended \cup writeProperty

\* The GenericAll block (aces.rs:79-85) without its `return rights`.
rights_no_early_return(a, ot, laps) ==
    LET ace_type == object_type_s(a) IN
    (IF /\ has_flag(a.mask, GENERIC_ALL)
        /\ (ace_type = None \/ ace_type = Some("AllGuid"))
     THEN {"GenericAll"} ELSE {})
    \cup rights_after_generic_all(a, ot, laps)

\* Aces::rights: the GenericAll block returns early, whether or not it inserted.
rights(a, ot, laps) ==
    LET ace_type == object_type_s(a) IN
    IF has_flag(a.mask, GENERIC_ALL)
    THEN IF ace_type = None \/ ace_type = Some("AllGuid") THEN {"GenericAll"} ELSE {}
    ELSE rights_after_generic_all(a, ot, laps)

(***************************************************************************)
(* parser.rs: the object model.  An Object is [attributes |-> a function   *)
(* from attribute name to Attribute]; an Attribute is [num_values, values];*)
(* an AttributeValue is [t |-> its variant, v |-> its payload].            *)
(***************************************************************************)

\* Object::get: the values of the named attribute.
get(obj, attr_name) ==
    IF attr_name \in DOMAIN obj.attributes
    THEN Some(obj.attributes[attr_name].values) ELSE None

\* Object::get_first: `.and_then(|values| values.first())`.
get_first(obj, attr_name) ==
    LET values == get(obj, attr_name) IN
    IF values = None \/ values.v = <<>> THEN None ELSE Some(Head(values.v))

\* AttributeValue::as_string, AttributeValue::as_integer.
as_string(value) == IF value.t = "String" THEN Some(value.v) ELSE None
as_integer(value) == IF value.t = "Integer" THEN Some(value.v) ELSE None

\* Iterator::filter_map(as_string) over a value list.
RECURSIVE filter_map_as_string(_)
filter_map_as_string(values) ==
    IF values = <<>> THEN <<>>
    ELSE LET x == as_string(Head(values))
             rest == filter_map_as_string(Tail(values))
         IN  IF x = None THEN rest ELSE <<x.v>> \o rest

\* Object::get_attribute_classes.
get_attribute_classes(obj) ==
    LET values == get(obj, "objectClass") IN
    IF values = None THEN None ELSE Some(filter_map_as_string(values.v))

\* Object::has_attribute_class.
has_attribute_class(obj, class) ==
    LET classes == get_attribute_classes(obj) IN
    IF classes = None THEN FALSE
    ELSE \E i \in 1..Len(classes.v) : classes.v[i] = class

\* `self.get_first("userAccountControl").and_then(AttributeValue::as_integer)`.
user_account_control(obj) ==
    LET first == get_first(obj, "userAccountControl") IN
    IF first = None THEN None ELSE as_integer(first.v)

\* The User / UserDisabled decision on userAccountControl bit 0x2.
user_type(uac) ==
    IF BitAnd(uac, 2) # 0 THEN "UserDisabled" ELSE "User"

\* The loop of Object::get_type over the classes in declared order.
RECURSIVE get_type_loop(_, _)
get_type_loop(obj, classes) ==
    IF classes = <<>> THEN "Unknown"
    ELSE LET class == Head(classes)
             uac == user_account_control(obj)
         IN  CASE class = "computer" -> "Computer"
               [] class = "user" ->
                      IF uac # None THEN user_type(uac.v)
                      ELSE get_type_loop(obj, Tail(classes))
               [] class = "group" -> "Group"
               [] class = "domain" -> "Domain"
               [] class = "organizationalUnit" -> "OU"
               [] class = "container" -> "Container"
               [] class = "groupPolicyContainer" -> "GPO"
               [] OTHER -> get_type_loop(obj, Tail(classes))

\* Object::get_type.
get_type(obj) ==
    LET uac == user_account_control(obj)
        classes == get_attribute_classes(obj)
    IN  IF get_first(obj, "gPCFileSysPath") # None THEN "GPO"
        ELSE IF has_attribute_class(obj, "user") /\ uac # None THEN user_type(uac.v)
        ELSE IF classes # None THEN get_type_loop(obj, classes.v)
        ELSE "Unknown"

\* common.rs: type_string.
type_string(obj) ==
    LET t == get_type(obj) IN
    IF t = "UserDisabled" THEN "User" ELSE t

(***************************************************************************)
(* sid.rs: SID::to_string.  A SID is [revision, identifier_authority (six  *)
(* bytes), sub_authorities (the first sub_authority_count of them)].       *)
(***************************************************************************)
DecDigits == <<"0", "1", "2", "3", "4", "5", "6", "7", "8", "9">>

\* u8 / u32 / u64 Display: decimal, no padding.
RECURSIVE to_decimal(_)
to_decimal(n) ==
    IF n < 10 THEN DecDigits[n + 1]
    ELSE to_decimal(n \div 10) \o DecDigits[(n % 10) + 1]

\* u64::from_be_bytes over the authority bytes.
RECURSIVE from_be_bytes(_)
from_be_bytes(b) ==
    IF b = <<>> THEN 0 ELSE b[Len(b)] + 256 * from_be_bytes(SubSeq(b, 1, Len(b) - 1))

\* `.collect::<Vec<_>>().join("-")` over the decimal sub-authorities.
RECURSIVE join_sub_auths(_)
join_sub_auths(subs) ==
    IF subs = <<>> THEN ""
    ELSE IF Len(subs) = 1 THEN to_decimal(subs[1])
    ELSE to_decimal(subs[1]) \o "-" \o join_sub_auths(Tail(subs))

\* SID::to_string.
SID_to_string(sid) ==
    "S-" \o to_decimal(sid.revision)
         \o "-" \o to_decimal(from_be_bytes(sid.identifier_authority))
         \o "-" \o join_sub_auths(sid.sub_authorities)

(***************************************************************************)
(* adexplorersnapshot.rs and aces.rs: Aces::from_security_descriptor.      *)
(* An ADExplorerSnapshot is [snapshot |-> [objects], caches |-> [sid_cache]]*)
(* with sid_cache a function from SID to object index (from 0).  An SDDL is*)
(* [owner_sid, dacl], a dacl [aces].  A row (struct Aces) is               *)
(* [principal_sid, principal_type, right_name, is_inherited].              *)
(***************************************************************************)

\* Vec::get / slice::get with an index from 0.
Vec_get(vec, index) ==
    IF index < Len(vec) THEN Some(vec[index + 1]) ELSE None

\* ADExplorerSnapshot::get_sid.
get_sid(snap, sid) ==
    IF sid \in DOMAIN snap.caches.sid_cache
    THEN Vec_get(snap.snapshot.objects, snap.caches.sid_cache[sid])
    ELSE None

\* ACEFlags::is_set and Aces::is_inherited.
is_inherited(a) == BitAnd(a.ace_flags, INHERITED_ACE) # 0

\* A filter that lets AccessDeniedObject through.
dacl_filter_only_access_denied(a) == a.kind # "AccessDenied"

\* The filter on the DACL's ACEs:
\* `!matches!(ace, ACE::AccessDenied(_) | ACE::AccessDeniedObject(_))`.
dacl_filter(a) == a.kind \notin {"AccessDenied", "AccessDeniedObject"}

\* The orders in which a HashSet's iterator may yield the elements of S.
iteration_orders(S) ==
    {p \in [1..Cardinality(S) -> S] :
        \A i, j \in 1..Cardinality(S) : i # j => p[i] # p[j]}

\* The push of the owner row (aces.rs:32-44).
owner_rows(s, snap) ==
    IF s.owner_sid = None THEN <<>>
    ELSE LET obj == get_sid(snap, s.owner_sid.v) IN
         IF obj = None THEN <<>>
         ELSE <<[principal_sid |-> SID_to_string(s.owner_sid.v),
                 principal_type |-> type_string(obj.v),
                 right_name |-> "Owns",
                 is_inherited |-> FALSE]>>

\* A loop body that pushes rows also for a trustee get_sid does not find.
ace_rows_any_trustee(a, snap, ot, laps) ==
    LET rs == rights(a, ot, laps)
        target_obj == get_sid(snap, a.sid)
    IN  {[i \in 1..Cardinality(rs) |->
            [principal_sid |-> SID_to_string(a.sid),
             principal_type |-> IF target_obj = None THEN "Unknown"
                                ELSE type_string(target_obj.v),
             right_name |-> p[i],
             is_inherited |-> is_inherited(a)]] :
         p \in iteration_orders(rs)}

\* The body of the loop over the filtered ACEs (aces.rs:52-63): the row lists one
\* ACE may push, one per iteration order of its rights.
ace_rows(a, snap, ot, laps) ==
    LET rs == rights(a, ot, laps)
        target_obj == get_sid(snap, a.sid)
    IN  IF target_obj = None THEN {<<>>}
        ELSE {[i \in 1..Cardinality(rs) |->
                 [principal_sid |-> SID_to_string(a.sid),
                  principal_type |-> type_string(target_obj.v),
                  right_name |-> p[i],
                  is_inherited |-> is_inherited(a)]] :
              p \in iteration_orders(rs)}

\* The loop over dacl.aces (aces.rs:46-65): the row lists it may push.
RECURSIVE dacl_rows(_, _, _, _)
dacl_rows(dacl_aces, snap, ot, laps) ==
    IF dacl_aces = <<>> THEN {<<>>}
    ELSE LET first == IF dacl_filter(Head(dacl_aces))
                      THEN ace_rows(Head(dacl_aces), snap, ot, laps) ELSE {<<>>}
         IN  {f \o r : f \in first, r \in dacl_rows(Tail(dacl_aces), snap, ot, laps)}

\* The DACL rows pushed before the owner row.
from_security_descriptor_owner_last(s, snap, ot, laps) ==
    {d \o owner_rows(s, snap) :
        d \in IF s.dacl = None THEN {<<>>} ELSE dacl_rows(s.dacl.v.aces, snap, ot, laps)}

\* Aces::from_security_descriptor: the Vec<Aces> it may return.
from_security_descriptor(s, snap, ot, laps) ==
    {owner_rows(s, snap) \o d :
        d \in IF s.dacl = None THEN {<<>>} ELSE dacl_rows(s.dacl.v.aces, snap, ot, laps)}

(***************************************************************************)
(* Inputs of the translator.                                               *)
(***************************************************************************)
\* The 16 wire bytes of object-type GUIDs, as a Windows security descriptor
\* stores them (data1, data2, data3 little-endian, data4 in order).
Wire_DSReplicationGetChanges ==
    <<170, 246, 49, 17, 7, 156, 209, 17, 247, 159, 0, 192, 79, 194, 220, 210>>
Wire_DSReplicationGetChangesAll ==
    <<173, 246, 49, 17, 7, 156, 209, 17, 247, 159, 0, 192, 79, 194, 220, 210>>
Wire_DSReplicationGetChangesInFilteredSet ==
    <<118, 91, 233, 137, 77, 68, 98, 76, 153, 26, 15, 172, 190, 218, 100, 12>>
Wire_UserForceChangePassword ==
    <<112, 149, 41, 0, 109, 36, 208, 17, 167, 104, 0, 170, 0, 110, 5, 41>>
Wire_AllGuid ==
    <<0, 0, 0, 0, 0, 0, 0, 0, 0, 0, 0, 0, 0, 0, 0, 0>>
Wire_WriteMember ==
    <<192, 121, 150, 191, 230, 13, 208, 17, 162, 133, 0, 170, 0, 48, 73, 226>>
Wire_WriteAllowedToAct ==
    <<229, 195, 120, 63, 154, 247, 189, 70, 160, 184, 157, 24, 17, 109, 220, 121>>
Wire_WriteSPN ==
    <<136, 71, 166, 243, 6, 83, 209, 17, 169, 197, 0, 0, 248, 3, 103, 193>>
Wire_AddKeyPrincipal ==
    <<15, 214, 71, 91, 144, 96, 178, 64, 159, 55, 42, 77, 232, 143, 48, 99>>
Wire_UserAccountRestrictions ==
    <<0, 66, 22, 76, 192, 32, 208, 17, 167, 104, 0, 170, 0, 110, 5, 41>>
Wire_Enroll ==
    <<104, 201, 16, 14, 251, 120, 210, 17, 144, 212, 0, 192, 79, 121, 220, 85>>
\* Two GUIDs outside the well-known set: 9b026da6-0d3c-465c-8bee-5199d7165cba
\* (the GUID of guid.rs's tests) and 12345678-1234-1234-1234-123456789012
\* (no hex letter, so its rendering has no letter case).
Wire_Unknown ==
    <<166, 109, 2, 155, 60, 13, 92, 70, 139, 238, 81, 153, 215, 22, 92, 186>>
Wire_UnknownDigits ==
    <<120, 86, 52, 18, 52, 18, 52, 18, 18, 52, 18, 52, 86, 120, 144, 18>>

WellKnownWire ==
    {Wire_DSReplicationGetChanges, Wire_DSReplicationGetChangesAll,
     Wire_DSReplicationGetChangesInFilteredSet, Wire_UserForceChangePassword,
     Wire_WriteMember, Wire_WriteAllowedToAct, Wire_WriteSPN, Wire_AddKeyPrincipal,
     Wire_UserAccountRestrictions, Wire_Enroll}
UnknownWire == {Wire_Unknown, Wire_UnknownDigits}
GuidWire == WellKnownWire \cup UnknownWire \cup {Wire_AllGuid}

\* Every access mask over the flags Aces::rights tests, and one it does not.
MaskFlags == {GENERIC_ALL, GENERIC_WRITE, WRITE_OWNER, WRITE_DACL,
              ADS_RIGHT_DS_CONTROL_ACCESS, ADS_RIGHT_DS_WRITE_PROP, ADS_RIGHT_DS_SELF}
Masks == {SumSet(S) : S \in SUBSET MaskFlags}

\* An ACE of a plain kind, as parse_access_allowed_ace / parse_access_denied_ace
\* build it.
PlainAce(kind, flags, mask, sid) ==
    [kind |-> kind, ace_flags |-> flags, mask |-> mask, sid |-> sid]

\* An ACE of an *Object kind, as parse_access_allowed_object_ace and its siblings
\* build it: object_type is Some(GUID::from_next_bytes) when flags & 1 != 0
\* (wire is Some of the 16 bytes), None otherwise (wire = None).
ObjectAce(kind, flags, mask, wire, sid) ==
    [kind |-> kind, ace_flags |-> flags, mask |-> mask, sid |-> sid,
     object_type |-> IF wire = None THEN None ELSE parse_guid(wire.v)]

\* sid.rs: SID values (revision, 6-byte authority, sub-authorities).
SidA == [revision |-> 1, identifier_authority |-> <<0, 0, 0, 0, 0, 5>>,
         sub_authorities |-> <<21, 1104>>]
SidB == [revision |-> 1, identifier_authority |-> <<0, 0, 0, 0, 0, 5>>,
         sub_authorities |-> <<32, 544>>]
SidC == [revision |-> 1, identifier_authority |-> <<0, 0, 0, 0, 0, 5>>,
         sub_authorities |-> <<18>>]

\* The ACEs Aces::rights is applied to: every non-deny kind, mask and object type.
RightsAces ==
    {PlainAce("AccessAllowed", 0, m, SidA) : m \in Masks}
    \cup {ObjectAce(k, 0, m, w, SidA) :
            k \in {"AccessAllowedObject", "SystemAuditObject"},
            m \in Masks, w \in {Some(g) : g \in GuidWire} \cup {None}}

(***************************************************************************)
(* SpecRights: one call of Aces::rights.                                   *)
(***************************************************************************)
InitRights ==
    /\ pc = "call"
    /\ ace \in RightsAces
    /\ object_type \in ObjectTypes
    /\ has_laps \in BOOLEAN
    /\ result = {}
    /\ sd = None /\ snapshot = None /\ aces = <<>>
    /\ ParseIdle /\ AuxIdle

CallRights ==
    /\ pc = "call"
    /\ result' = rights(ace, object_type, has_laps)
    /\ pc' = "done"
    /\ UNCHANGED <<ace, object_type, has_laps, sd, snapshot, aces, parse_vars, aux_vars>>

NextRights == CallRights

SpecRights == InitRights /\ [][NextRights]_vars

(***************************************************************************)
(* Claims about Aces::rights, checked under SpecRights.                    *)
(***************************************************************************)

\* The ACE kinds from_security_descriptor hands to Aces::rights carrying an
\* object type.
AllowObjectKinds == {"AccessAllowedObject", "SystemAuditObject"}

\* The ACE's object type is the GUID with wire bytes w.
HasObjectType(a, w) ==
    a.kind \in ObjectAceKinds /\ a.object_type = parse_guid(w)

\* The ACE's object type is absent or the all-zero GUID.
ObjectTypeAbsentOrZero(a) ==
    ACE_object_type(a) = None \/ ACE_object_type(a) = parse_guid(Wire_AllGuid)

\* The rights whose rule reads the object type.
ObjectTypeDependentRights ==
    {"GenericAll", "AllExtendedRights", "GenericWrite", "AddSelf", "GetChanges",
     "GetChangesAll", "GetChangesInFilteredSet", "ForceChangePassword", "WriteSPN",
     "AddMember", "AddAllowedToAct", "WriteAccountRestrictions",
     "AddKeyCredentialLink"}

\* C2: an allow ACE with mask DS_CONTROL_ACCESS (0x100) on a Domain target whose
\* object type is DS-Replication-Get-Changes, -Get-Changes-All or
\* -Get-Changes-In-Filtered-Set yields exactly {"GetChanges"},
\* {"GetChangesAll"}, {"GetChangesInFilteredSet"}.
C2_WellKnownGuidsRecognised ==
    (/\ pc = "done"
     /\ ace.kind = "AccessAllowedObject"
     /\ ace.mask = ADS_RIGHT_DS_CONTROL_ACCESS
     /\ object_type = "Domain")
    => /\ HasObjectType(ace, Wire_DSReplicationGetChanges)
            => result = {"GetChanges"}
       /\ HasObjectType(ace, Wire_DSReplicationGetChangesAll)
            => result = {"GetChangesAll"}
       /\ HasObjectType(ace, Wire_DSReplicationGetChangesInFilteredSet)
            => result = {"GetChangesInFilteredSet"}

\* C3: an allow ACE whose object type is present, non-zero and outside the
\* well-known set yields none of the object-type-dependent rights, for every
\* target kind and every mask.
C3_UnknownGuidEmitsNothing ==
    (/\ pc = "done"
     /\ ace.kind \in AllowObjectKinds
     /\ \E w \in UnknownWire : HasObjectType(ace, w))
    => result \cap ObjectTypeDependentRights = {}

\* C4: an allow ACE whose mask has GENERIC_ALL and whose object type is absent
\* or all-zero yields exactly {"GenericAll"}, for every target kind and whatever
\* other mask bits are set.
C4_GenericAllShortCircuit ==
    (/\ pc = "done"
     /\ has_flag(ace.mask, GENERIC_ALL)
     /\ ObjectTypeAbsentOrZero(ace))
    => result = {"GenericAll"}

\* C4 witness: GENERIC_ALL with WRITE_DACL, WRITE_OWNER, DS_CONTROL_ACCESS and
\* DS_WRITE_PROP also set, all-zero object type, on a Group: {"GenericAll"}.
C4_Witness ==
    /\ pc = "done"
    /\ has_flag(ace.mask, GENERIC_ALL)
    /\ has_flag(ace.mask, WRITE_DACL) /\ has_flag(ace.mask, WRITE_OWNER)
    /\ has_flag(ace.mask, ADS_RIGHT_DS_CONTROL_ACCESS)
    /\ has_flag(ace.mask, ADS_RIGHT_DS_WRITE_PROP)
    /\ HasObjectType(ace, Wire_AllGuid)
    /\ object_type = "Group"
    /\ result = {"GenericAll"}

\* C5: an allow ACE with DS_WRITE_PROP (0x20), no GENERIC_ALL, and object type
\* Service-Principal-Name on a User yields exactly {"WriteSPN"}; and
\* "GenericWrite" is emitted only when the object type is absent or all-zero.
C5_WritePropertyRule ==
    (/\ pc = "done"
     /\ ace.kind \in AllowObjectKinds \cup {"AccessAllowed"}
     /\ ~has_flag(ace.mask, GENERIC_ALL))
    => /\ (/\ ace.mask = ADS_RIGHT_DS_WRITE_PROP
           /\ HasObjectType(ace, Wire_WriteSPN)
           /\ object_type = "User")
            => result = {"WriteSPN"}
       /\ "GenericWrite" \in result => ObjectTypeAbsentOrZero(ace)

(***************************************************************************)
(* SpecAces: one call of Aces::from_security_descriptor.                   *)
(***************************************************************************)

\* The longest DACL drawn.
MaxAces == 2

\* A snapshot of two objects: a user with objectSid SidA and a group with
\* objectSid SidB; SidC is the objectSid of no object.
StringValue(str) == [t |-> "String", v |-> str]
IntegerValue(n) == [t |-> "Integer", v |-> n]
Attr(values) == [num_values |-> Len(values), values |-> values]
UserObject ==
    [attributes |->
        [n \in {"objectClass", "userAccountControl"} |->
            IF n = "objectClass"
            THEN Attr(<<StringValue("top"), StringValue("person"), StringValue("user")>>)
            ELSE Attr(<<IntegerValue(512)>>)]]
GroupObject ==
    [attributes |->
        [n \in {"objectClass"} |-> Attr(<<StringValue("top"), StringValue("group")>>)]]
AcesSnapshot ==
    [snapshot |-> [objects |-> <<UserObject, GroupObject>>],
     caches |-> [sid_cache |-> [sid \in {SidA, SidB} |-> IF sid = SidA THEN 0 ELSE 1]]]

\* The ACEs of the DACLs drawn: every kind, each with a trustee in sid_cache and
\* a mask that yields one right (GENERIC_ALL), an inherited one with a mask that
\* yields two (WRITE_DACL | WRITE_OWNER), or a trustee outside sid_cache.
\* A shape is <<trustee SID, ace_flags, mask>>.
DaclShapes == {<<SidA, 0, GENERIC_ALL>>,
               <<SidB, INHERITED_ACE, WRITE_DACL + WRITE_OWNER>>,
               <<SidC, 0, GENERIC_ALL>>}
DaclAces ==
    {PlainAce(k, t[2], t[3], t[1]) : k \in PlainAceKinds, t \in DaclShapes}
    \cup {ObjectAce(k, t[2], t[3], Some(Wire_AllGuid), t[1]) :
            k \in ObjectAceKinds, t \in DaclShapes}

Dacls == UNION {[1..n -> DaclAces] : n \in 0..MaxAces}

Descriptors ==
    [owner_sid : {None, Some(SidA), Some(SidC)},
     dacl : {None} \cup {Some([aces |-> d]) : d \in Dacls}]

InitAces ==
    /\ pc = "call"
    /\ sd \in Descriptors
    /\ snapshot = AcesSnapshot
    /\ object_type = "Group"
    /\ has_laps = FALSE
    /\ aces = <<>>
    /\ ace = None /\ result = {}
    /\ ParseIdle /\ AuxIdle

CallFromSecurityDescriptor ==
    /\ pc = "call"
    /\ aces' \in from_security_descriptor(sd, snapshot, object_type, has_laps)
    /\ pc' = "done"
    /\ UNCHANGED <<sd, snapshot, object_type, has_laps, ace, result, parse_vars, aux_vars>>

NextAces == CallFromSecurityDescriptor

SpecAces == InitAces /\ [][NextAces]_vars

(***************************************************************************)
(* Claims about Aces::from_security_descriptor, checked under SpecAces.    *)
(***************************************************************************)
DenyKinds == {"AccessDenied", "AccessDeniedObject"}

\* The ACEs of the descriptor's DACL (none when the DACL is absent).
AcesOf(s) == IF s.dacl = None THEN <<>> ELSE s.dacl.v.aces

\* The descriptor with the deny ACEs taken out of its DACL.
WithoutDeny(s) ==
    IF s.dacl = None THEN s
    ELSE [s EXCEPT !.dacl = Some([aces |-> SelectSeq(s.dacl.v.aces,
                                      LAMBDA a : a.kind \notin DenyKinds)])]

\* The number of rows the allow ACEs with a trustee in sid_cache stand for.
RECURSIVE AllowRowCount(_)
AllowRowCount(as) ==
    IF as = <<>> THEN 0
    ELSE (IF /\ Head(as).kind \notin DenyKinds
             /\ Head(as).sid \in DOMAIN snapshot.caches.sid_cache
          THEN Cardinality(rights(Head(as), object_type, has_laps)) ELSE 0)
         + AllowRowCount(Tail(as))

\* C6: an AccessDenied or AccessDeniedObject ACE contributes no row: the rows
\* returned are rows the descriptor without its deny ACEs returns, and there
\* are as many DACL rows as the allow ACEs alone account for.
C6_DenyIgnored ==
    pc = "done"
    => /\ aces \in from_security_descriptor(WithoutDeny(sd), snapshot,
                                            object_type, has_laps)
       /\ Len(aces) = Len(owner_rows(sd, snapshot)) + AllowRowCount(AcesOf(sd))

\* C6 witness: a DACL of a deny ACE and a deny-object ACE, both with a trustee in
\* sid_cache and a mask that an allow ACE turns into rows, returns no row.
C6_Witness ==
    /\ pc = "done"
    /\ sd.owner_sid = None
    /\ Len(AcesOf(sd)) = 2
    /\ AcesOf(sd)[1].kind = "AccessDenied" /\ AcesOf(sd)[2].kind = "AccessDeniedObject"
    /\ \A i \in 1..2 : AcesOf(sd)[i].sid = SidA /\ AcesOf(sd)[i].mask = GENERIC_ALL
    /\ aces = <<>>

\* C7: when the owner SID is present and a key of sid_index, the first row is
\* (owner SID, "Owns", not inherited) and no later row is an "Owns" row;
\* otherwise no row is an "Owns" row.
C7_OwnerRowFirst ==
    pc = "done"
    => IF sd.owner_sid # None /\ sd.owner_sid.v \in DOMAIN snapshot.caches.sid_cache
       THEN /\ Len(aces) >= 1
            /\ aces[1].principal_sid = SID_to_string(sd.owner_sid.v)
            /\ aces[1].right_name = "Owns"
            /\ aces[1].is_inherited = FALSE
            /\ \A i \in 2..Len(aces) : aces[i].right_name # "Owns"
       ELSE \A i \in 1..Len(aces) : aces[i].right_name # "Owns"

\* C7 witness: an owner in sid_index and a DACL that yields rows: the "Owns" row
\* of S-1-5-21-1104 is first, the DACL's rows follow.
C7_Witness ==
    /\ pc = "done"
    /\ sd.owner_sid = Some(SidA)
    /\ Len(aces) >= 3
    /\ aces[1].right_name = "Owns"
    /\ aces[1].principal_sid = "S-1-5-21-1104"
    /\ aces[2].right_name # "Owns"

(***************************************************************************)
(* parser.rs over std::io::Cursor<&[u8]> and byteorder: the byte reader.   *)
(* A read at position pos of the bytes d yields Ok(pos', v) or             *)
(* Err(pos', kind, msg), pos' being the cursor afterwards.                 *)
(*                                                                         *)
(* Positions and unsigned 32-bit values of 2^31 and more are held as Huge: *)
(* the inputs are shorter than 2^31 bytes, so such a value exceeds every   *)
(* length, index and position it is compared with, as the exact value does.*)
(***************************************************************************)
Huge == 2147483647

\* u64 addition of a position and an unsigned offset.
pos_add(a, b) == IF a > Huge - b THEN Huge ELSE a + b

Ok(pos, v) == [ok |-> TRUE, pos |-> pos, v |-> v]
Err(pos, kind, msg) == [ok |-> FALSE, pos |-> pos, kind |-> kind, msg |-> msg]

\* `let x = v; K(x)`.
Let(x, K(_)) == K(x)

\* `let x = r?; K(x)`: an Err is returned as it is.
Try(r, K(_)) == IF r.ok THEN K(r) ELSE r

\* Option::ok_or_else at cursor pos.
ok_or_else(opt, pos, kind, msg) ==
    IF opt.some THEN Ok(pos, opt.v) ELSE Err(pos, kind, msg)

\* Option::unwrap_or.
unwrap_or(opt, default) == IF opt.some THEN opt.v ELSE default

\* The smallest element of a non-empty set of integers.
Min(S) == CHOOSE x \in S : \A y \in S : x <= y

\* A loop that ends at the first error (`?` in its body, or
\* collect::<Result<Vec<_>>>()), given the result of each turn: the first
\* Err, or the values with the cursor at pos.
first_err_or(results, pos) ==
    LET failed == {i \in DOMAIN results : ~results[i].ok} IN
    IF failed # {} THEN results[Min(failed)]
    ELSE Ok(pos, [i \in DOMAIN results |-> results[i].v])

\* Cursor::read_exact.  A short read fails with UnexpectedEof; the cursor is
\* then at the end of the input (current std) or where it was (older std).
read_exact(d, pos, n) ==
    IF n = 0 THEN Ok(pos, <<>>)
    ELSE IF pos <= Len(d) /\ n <= Len(d) - pos
    THEN Ok(pos + n, SubSeq(d, pos + 1, pos + n))
    ELSE Err(IF eof_seeks_end THEN Len(d) ELSE pos,
             "UnexpectedEof", "failed to fill whole buffer")

\* The whole items of `size` bytes between pos and the end of the input.
items_left(d, pos, size) == IF pos <= Len(d) THEN (Len(d) - pos) \div size ELSE 0

\* u16::from_le_bytes.
u16_from_le_bytes(b) == b[1] + 256 * b[2]

\* u32::from_le_bytes.
u32_from_le_bytes(b) ==
    IF b[4] >= 128 THEN Huge
    ELSE b[1] + 256 * b[2] + 65536 * b[3] + 16777216 * b[4]

\* i32::from_le_bytes (two's complement).
i32_from_le_bytes(b) ==
    b[1] + 256 * b[2] + 65536 * b[3]
        + 16777216 * (IF b[4] >= 128 THEN b[4] - 256 ELSE b[4])

\* ReadBytesExt::read_u16::<LittleEndian>.
read_u16(d, pos) ==
    Try(read_exact(d, pos, 2), LAMBDA r : Ok(r.pos, u16_from_le_bytes(r.v)))

\* ReadBytesExt::read_u32::<LittleEndian>.
read_u32(d, pos) ==
    Try(read_exact(d, pos, 4), LAMBDA r : Ok(r.pos, u32_from_le_bytes(r.v)))

\* ReadBytesExt::read_i32::<LittleEndian>.
read_i32(d, pos) ==
    Try(read_exact(d, pos, 4), LAMBDA r : Ok(r.pos, i32_from_le_bytes(r.v)))

\* ReadBytesExt::read_u64 / read_i64::<LittleEndian>: the value is held as its
\* eight bytes, least significant first.
read_i64(d, pos) == read_exact(d, pos, 8)

\* ReadBytesExt::read_u32_into::<LittleEndian> into a buffer of n words: one
\* read_exact of 4 * n bytes.
read_u32_into(d, pos, n) ==
    IF n <= items_left(d, pos, 4)
    THEN Ok(pos + 4 * n,
            [i \in 1..n |-> u32_from_le_bytes(SubSeq(d, pos + 4 * i - 3, pos + 4 * i))])
    ELSE Err(IF eof_seeks_end THEN Len(d) ELSE pos,
             "UnexpectedEof", "failed to fill whole buffer")

(***************************************************************************)
(* Strings.  A Rust String is held as a TLA+ string: a printable ASCII     *)
(* character other than the double quote, the percent sign, the backslash  *)
(* and the grave accent is itself, every other scalar value is a percent   *)
(* sign followed by its six upper-case hex digits.                         *)
(***************************************************************************)
Ascii_20_21 == " !"
Ascii_23_24 == "#$"
Ascii_26_5B == "&'()*+,-./0123456789:;<=>?@ABCDEFGHIJKLMNOPQRSTUVWXYZ["
Ascii_5D_5F == "]^_"
Ascii_61_7E == "abcdefghijklmnopqrstuvwxyz{|}~"

\* The i-th character of a string.
CharAt(str, i) == SubSeq(str, i, i)

\* {:06X}.
Hex6(c) ==
    [i \in 1..6 |-> UpperHexDigits[((c \div (16 ^ (6 - i))) % 16) + 1]]

\* One char as a string.
char_string(c) ==
    IF c \in 32..33 THEN CharAt(Ascii_20_21, c - 31)
    ELSE IF c \in 35..36 THEN CharAt(Ascii_23_24, c - 34)
    ELSE IF c \in 38..91 THEN CharAt(Ascii_26_5B, c - 37)
    ELSE IF c \in 93..95 THEN CharAt(Ascii_5D_5F, c - 92)
    ELSE IF c \in 97..126 THEN CharAt(Ascii_61_7E, c - 96)
    ELSE Let(Hex6(c), LAMBDA h : "%" \o h[1] \o h[2] \o h[3] \o h[4] \o h[5] \o h[6])

\* char::REPLACEMENT_CHARACTER, U+FFFD.
REPLACEMENT_CHARACTER == "%00FFFD"

\* char::from_u32 of a 16-bit word: None for a surrogate.
char_from_u32(word) ==
    IF word \in 55296..57343 THEN None ELSE Some(char_string(word))

\* The push in read_next_wstring / read_wstring.
push_word(str, word) == str \o unwrap_or(char_from_u32(word), REPLACEMENT_CHARACTER)

\* The scalar values of String::from_utf16_lossy: a surrogate pair is one
\* scalar value, an unpaired surrogate is U+FFFD.
RECURSIVE decode_utf16_lossy(_)
decode_utf16_lossy(words) ==
    IF words = <<>> THEN <<>>
    ELSE IF Head(words) \in 55296..56319 /\ Len(words) >= 2 /\ words[2] \in 56320..57343
    THEN <<65536 + (Head(words) - 55296) * 1024 + (words[2] - 56320)>>
             \o decode_utf16_lossy(Tail(Tail(words)))
    ELSE IF Head(words) \in 55296..57343
    THEN <<65533>> \o decode_utf16_lossy(Tail(words))
    ELSE <<Head(words)>> \o decode_utf16_lossy(Tail(words))

\* The String of a sequence of scalar values.
RECURSIVE string_of(_)
string_of(chars) ==
    IF chars = <<>> THEN "" ELSE char_string(Head(chars)) \o string_of(Tail(chars))

\* String::from_utf16_lossy.
from_utf16_lossy(words) == string_of(decode_utf16_lossy(words))

\* String::from_utf8_lossy for bytes that contain no well-formed multi-byte
\* sequence: an ASCII byte is its char, any other byte is U+FFFD.
from_utf8_lossy(bytes) ==
    string_of([i \in 1..Len(bytes) |-> IF bytes[i] < 128 THEN bytes[i] ELSE 65533])

\* chunks_exact(2).map(u16::from_le_bytes).take_while(|&c| c != 0).
take_while_words(bytes) ==
    LET words == [i \in 1..(Len(bytes) \div 2) |-> bytes[2 * i - 1] + 256 * bytes[2 * i]]
        zeros == {i \in 1..Len(words) : words[i] = 0}
    IN IF zeros = {} THEN words ELSE SubSeq(words, 1, Min(zeros) - 1)

\* read_wstring_exact.
read_wstring_exact(d, pos, num_chars) ==
    Try(read_exact(d, pos, num_chars * 2),
        LAMBDA r : Ok(r.pos, from_utf16_lossy(take_while_words(r.v))))

\* read_next_wstring: words up to and including the first zero word.
RECURSIVE read_next_wstring_loop(_, _, _)
read_next_wstring_loop(d, pos, str) ==
    Try(read_u16(d, pos),
        LAMBDA r : IF r.v = 0 THEN Ok(r.pos, str)
                   ELSE read_next_wstring_loop(d, r.pos, push_word(str, r.v)))

read_next_wstring(d, pos) == read_next_wstring_loop(d, pos, "")

\* read_wstring: a u32 byte length, then at most len / 2 words, stopping
\* after the first zero word.
RECURSIVE read_wstring_loop(_, _, _, _)
read_wstring_loop(d, pos, remaining, str) ==
    IF remaining = 0 THEN Ok(pos, str)
    ELSE Try(read_u16(d, pos),
             LAMBDA r : IF r.v = 0 THEN Ok(r.pos, str)
                        ELSE read_wstring_loop(d, r.pos, remaining - 1,
                                               push_word(str, r.v)))

read_wstring(d, pos) ==
    Try(read_u32(d, pos), LAMBDA len : read_wstring_loop(d, len.pos, len.v \div 2, ""))

\* read_guid.
read_guid(d, pos) ==
    Try(read_exact(d, pos, 16),
        LAMBDA r : ok_or_else(parse_guid(r.v), r.pos, "InvalidData", "Failed to parse GUID"))

(***************************************************************************)
(* parser.rs: Header::parse and Property::parse.                           *)
(***************************************************************************)

\* One read, by the kind of the field.
read_field(d, pos, kind) ==
    CASE kind = "u16" -> read_u16(d, pos)
      [] kind = "u32" -> read_u32(d, pos)
      [] kind = "i32" -> read_i32(d, pos)
      [] kind = "u64" -> read_i64(d, pos)
      [] kind = "sig" -> read_exact(d, pos, 10)
      [] kind = "blob" -> read_exact(d, pos, 20)
      [] kind = "wstring_exact" -> read_wstring_exact(d, pos, 260)
      [] kind = "wstring" -> read_wstring(d, pos)
      [] kind = "guid" -> read_guid(d, pos)

\* Reads in a row, each followed by `?`: the values read, or the first error.
RECURSIVE read_fields(_, _, _, _)
read_fields(d, pos, kinds, acc) ==
    IF kinds = <<>> THEN Ok(pos, acc)
    ELSE Try(read_field(d, pos, Head(kinds)),
             LAMBDA r : read_fields(d, r.pos, Tail(kinds), Append(acc, r.v)))

\* Header::parse.  The signature is read and kept, never compared.
Header_parse(d, pos) ==
    Try(read_fields(d, pos, <<"sig", "i32", "u64", "wstring_exact", "wstring_exact",
                              "u32", "u32", "u32", "u32", "u32", "i32">>, <<>>),
        LAMBDA r : Ok(r.pos, [win_ad_sig |-> from_utf8_lossy(r.v[1]),
                              marker |-> r.v[2],
                              filetime |-> r.v[3],
                              optional_description |-> r.v[4],
                              server |-> r.v[5],
                              num_objects |-> r.v[6],
                              num_attributes |-> r.v[7],
                              fileoffset_low |-> r.v[8],
                              fileoffset_high |-> r.v[9],
                              fileoffset_end |-> r.v[10],
                              unk0x43a |-> r.v[11]]))

\* Property::parse.  The trailing 4-byte blob is skipped by a relative seek,
\* which does not look at the input's length.
Property_parse(d, pos) ==
    Try(read_fields(d, pos, <<"wstring", "i32", "u32", "wstring", "guid", "guid">>, <<>>),
        LAMBDA r : Ok(pos_add(r.pos, 4), [prop_name |-> r.v[1],
                                          unk1 |-> r.v[2],
                                          ads_type |-> r.v[3],
                                          dn |-> r.v[4],
                                          schema_id_guid |-> r.v[5],
                                          attribute_security_guid |-> r.v[6]]))

(***************************************************************************)
(* parser.rs: Attribute::parse.                                            *)
(***************************************************************************)
BooleanValue(b) == [t |-> "Boolean", v |-> b]
OctetStringValue(bytes) == [t |-> "OctetString", v |-> bytes]
LargeIntegerValue(bytes) == [t |-> "LargeInteger", v |-> bytes]
UTCTimeValue(ts) == [t |-> "UTCTime", v |-> ts]
NTSecurityDescriptorValue(bytes) == [t |-> "NTSecurityDescriptor", v |-> bytes]

\* The loop of Attribute::parse_string_values: each value is read at
\* attribute_start + offset and the cursor put back to pos.
string_values_loop(d, pos, attribute_start, offset_buf) ==
    first_err_or([i \in 1..Len(offset_buf) |->
                     Try(read_next_wstring(d, pos_add(attribute_start, offset_buf[i])),
                         LAMBDA s : Ok(s.pos, StringValue(s.v)))],
                 pos)

\* Attribute::parse_string_values.
parse_string_values(d, pos, num_values, attribute_start) ==
    Try(read_u32_into(d, pos, num_values),
        LAMBDA offset_buf :
            string_values_loop(d, offset_buf.pos, attribute_start, offset_buf.v))

\* The loop of Attribute::parse_octet_string_values.
RECURSIVE octet_string_values_loop(_, _, _, _)
octet_string_values_loop(d, pos, lengths, acc) ==
    IF lengths = <<>> THEN Ok(pos, acc)
    ELSE Try(read_exact(d, pos, Head(lengths)),
             LAMBDA buffer :
                 octet_string_values_loop(d, buffer.pos, Tail(lengths),
                                          Append(acc, OctetStringValue(buffer.v))))

\* Attribute::parse_octet_string_values.
parse_octet_string_values(d, pos, num_values) ==
    Try(read_u32_into(d, pos, num_values),
        LAMBDA lengths : octet_string_values_loop(d, lengths.pos, lengths.v, <<>>))

\* `(0..num_values).map(|_| Ok(Integer(reader.read_u32()?))).collect()`:
\* num_values reads in a row, the first short read being the error.
integer_values(d, pos, num_values) ==
    IF num_values <= items_left(d, pos, 4)
    THEN Ok(pos + 4 * num_values,
            [i \in 1..num_values |->
                IntegerValue(u32_from_le_bytes(SubSeq(d, pos + 4 * i - 3, pos + 4 * i)))])
    ELSE read_u32(d, pos_add(pos, 4 * items_left(d, pos, 4)))

\* `(0..num_values).map(|_| Ok(LargeInteger(reader.read_i64()?))).collect()`.
large_integer_values(d, pos, num_values) ==
    IF num_values <= items_left(d, pos, 8)
    THEN Ok(pos + 8 * num_values,
            [i \in 1..num_values |->
                LargeIntegerValue(SubSeq(d, pos + 8 * i - 7, pos + 8 * i))])
    ELSE read_i64(d, pos_add(pos, 8 * items_left(d, pos, 8)))

\* chrono: the month's length in the proleptic Gregorian calendar.
days_in_month(year, month) ==
    IF month \in {4, 6, 9, 11} THEN 30
    ELSE IF month # 2 THEN 31
    ELSE IF year % 4 = 0 /\ (year % 100 # 0 \/ year % 400 = 0) THEN 29 ELSE 28

\* chrono: days from 1970-01-01 to the civil date.
days_from_civil(year, month, day) ==
    LET y == IF month <= 2 THEN year - 1 ELSE year
        era == y \div 400
        yoe == y - era * 400
        doy == (153 * (IF month > 2 THEN month - 3 ELSE month + 9) + 2) \div 5 + day - 1
        doe == yoe * 365 + yoe \div 4 - yoe \div 100 + doy
    IN era * 146097 + doe - 719468

\* SystemTime::to_unix_timestamp: Utc.with_ymd_and_hms(..).single() is None
\* for a date or a time of day that does not exist.  The i64 timestamp
\* days * 86400 + secs is held as the pair, its product exceeding 2^31.
to_unix_timestamp(time) ==
    IF /\ time.month \in 1..12
       /\ time.day \in 1..days_in_month(time.year, time.month)
       /\ time.hour < 24 /\ time.minute < 60 /\ time.second < 60
    THEN Some([days |-> days_from_civil(time.year, time.month, time.day),
               secs |-> time.hour * 3600 + time.minute * 60 + time.second])
    ELSE None

\* The SystemTime read at pos: eight u16.
read_system_time(d, pos) ==
    Try(read_fields(d, pos, <<"u16", "u16", "u16", "u16",
                              "u16", "u16", "u16", "u16">>, <<>>),
        LAMBDA r : Ok(r.pos, [year |-> r.v[1], month |-> r.v[2],
                              day_of_week |-> r.v[3], day |-> r.v[4],
                              hour |-> r.v[5], minute |-> r.v[6],
                              second |-> r.v[7], milliseconds |-> r.v[8]]))

\* One turn of the loop of parse_utc_time_values.
utc_time_value(d, pos) ==
    Try(read_system_time(d, pos),
        LAMBDA time : ok_or_else(Let(to_unix_timestamp(time.v),
                                     LAMBDA ts : IF ts.some THEN Some(UTCTimeValue(ts.v))
                                                 ELSE None),
                                 time.pos, "InvalidData", "Invalid UTC time"))

\* Attribute::parse_utc_time_values: SystemTimes in a row, 16 bytes each; the
\* first one that is cut short or that is no timestamp is the error.  Only
\* the turns that the input is long enough to start are unfolded.
parse_utc_time_values(d, pos, num_values) ==
    Let(Min({num_values, items_left(d, pos, 16) + 1}),
        LAMBDA turns :
            first_err_or([i \in 1..turns |-> utc_time_value(d, pos + 16 * (i - 1))],
                         pos + 16 * turns))

\* Attribute::parse_nt_security_descriptor.
parse_nt_security_descriptor(d, pos) ==
    Try(read_u32(d, pos),
        LAMBDA len_descriptor_bytes :
            Try(read_exact(d, len_descriptor_bytes.pos, len_descriptor_bytes.v),
                LAMBDA buffer : Ok(buffer.pos, <<NTSecurityDescriptorValue(buffer.v)>>)))

\* The ADS types Attribute::parse decodes.
SupportedAdsTypes == {1, 2, 3, 4, 5, 6, 7, 8, 9, 10, 12, 25}

\* The `match ads_type` of Attribute::parse, the cursor being at pos after
\* num_values.
attribute_values(d, pos, num_values, ads_type, attribute_start) ==
    CASE ads_type \in {1, 2, 3, 4, 5, 12} ->
           parse_string_values(d, pos, num_values, attribute_start)
      [] ads_type = 8 -> parse_octet_string_values(d, pos, num_values)
      [] ads_type = 6 ->
           IF num_values # 1
           THEN Err(pos, "InvalidData", "Boolean attribute should have only one value")
           ELSE Try(read_u32(d, pos), LAMBDA b : Ok(b.pos, <<BooleanValue(b.v # 0)>>))
      [] ads_type = 7 -> integer_values(d, pos, num_values)
      [] ads_type = 10 -> large_integer_values(d, pos, num_values)
      [] ads_type = 9 -> parse_utc_time_values(d, pos, num_values)
      [] ads_type = 25 -> parse_nt_security_descriptor(d, pos)
      [] OTHER -> Err(pos, "InvalidData", "Unhandled ADSTYPE")

\* Attribute::parse.
Attribute_parse(d, pos, ads_type) ==
    Try(read_u32(d, pos),
        LAMBDA num_values :
            Try(attribute_values(d, num_values.pos, num_values.v, ads_type, pos),
                LAMBDA values : Ok(values.pos, [num_values |-> num_values.v,
                                                values |-> values.v])))

(***************************************************************************)
(* parser.rs: Object::parse.                                               *)
(***************************************************************************)

\* The mapping table: table_size entries of attr_index: u32 and
\* attr_offset: i32 read in a row, the first short read being the error.
read_mapping_table(d, pos, table_size) ==
    IF table_size <= items_left(d, pos, 8)
    THEN Ok(pos + 8 * table_size,
            [i \in 1..table_size |->
                [attr_index |-> u32_from_le_bytes(SubSeq(d, pos + 8 * i - 7, pos + 8 * i - 4)),
                 attr_offset |-> i32_from_le_bytes(SubSeq(d, pos + 8 * i - 3, pos + 8 * i))]])
    ELSE read_fields(d, pos_add(pos, 8 * items_left(d, pos, 8)), <<"u32", "i32">>, <<>>)

\* `properties.get(entry.attr_index as usize)`.
properties_get(props, attr_index) ==
    IF attr_index < Len(props) THEN Some(props[attr_index + 1]) ELSE None

\* attr_pos: start_pos + attr_offset, or start_pos.checked_sub(|attr_offset|).
attr_pos_of(start_pos, attr_offset) ==
    IF attr_offset >= 0 THEN Some(pos_add(start_pos, attr_offset))
    ELSE IF start_pos + attr_offset >= 0 THEN Some(start_pos + attr_offset)
    ELSE None

\* The end of the filter_map closure, given the result of Attribute::parse:
\* `.ok()?` drops the entry and leaves the cursor where the failed read left
\* it; otherwise the cursor is put back to current_pos.
entry_result(current_pos, prop_name, attribute) ==
    IF ~attribute.ok THEN [pos |-> attribute.pos, kv |-> None]
    ELSE [pos |-> current_pos, kv |-> Some(<<prop_name, attribute.v>>)]

\* The filter_map closure for one entry, the cursor being at cur: the pair to
\* collect (None when the entry is dropped) and the cursor afterwards.
entry_attribute(d, start_pos, cur, entry, props) ==
    IF ~properties_get(props, entry.attr_index).some
           \/ ~attr_pos_of(start_pos, entry.attr_offset).some
    THEN [pos |-> cur, kv |-> None]
    ELSE entry_result(cur, properties_get(props, entry.attr_index).v.prop_name,
                      Attribute_parse(d, attr_pos_of(start_pos, entry.attr_offset).v,
                                      properties_get(props, entry.attr_index).v.ads_type))

\* HashMap::insert: a later value replaces an earlier one under the same key.
HashMap_insert(map, key, value) ==
    [k \in (DOMAIN map) \cup {key} |-> IF k = key THEN value ELSE map[k]]

\* `mapping_table.iter().filter_map(..)` stopped at the first dropped entry.
RECURSIVE collect_attributes_map_while(_, _, _, _, _, _)
collect_attributes_map_while(d, start_pos, cur, mapping_table, props, map) ==
    IF mapping_table = <<>> THEN [pos |-> cur, attributes |-> map]
    ELSE Let(entry_attribute(d, start_pos, cur, Head(mapping_table), props),
             LAMBDA e :
                 IF ~e.kv.some THEN [pos |-> e.pos, attributes |-> map]
                 ELSE collect_attributes_map_while(d, start_pos, e.pos,
                          Tail(mapping_table), props,
                          HashMap_insert(map, e.kv.v[1], e.kv.v[2])))

\* `mapping_table.iter().filter_map(..).collect()` into the HashMap.
RECURSIVE collect_attributes(_, _, _, _, _, _)
collect_attributes(d, start_pos, cur, mapping_table, props, map) ==
    IF mapping_table = <<>> THEN [pos |-> cur, attributes |-> map]
    ELSE Let(entry_attribute(d, start_pos, cur, Head(mapping_table), props),
             LAMBDA e :
                 collect_attributes(d, start_pos, e.pos, Tail(mapping_table), props,
                     IF e.kv.some THEN HashMap_insert(map, e.kv.v[1], e.kv.v[2])
                     ELSE map))

\* The cursor left where the attribute decoding ended, plus obj_size.
final_seek_from_current(start_pos, obj_size, cur) == pos_add(cur, obj_size)

\* `reader.seek(SeekFrom::Start(start_pos + obj_size as u64))`.
final_seek(start_pos, obj_size, cur) == pos_add(start_pos, obj_size)

\* The empty HashMap.
HashMap_new == [k \in {} |-> None]

\* Object::parse.
Object_parse(d, pos, props) ==
    Try(read_fields(d, pos, <<"u32", "u32">>, <<>>),
        LAMBDA sizes :
            Try(read_mapping_table(d, sizes.pos, sizes.v[2]),
                LAMBDA mapping_table :
                    Let(collect_attributes(d, pos, mapping_table.pos,
                                           mapping_table.v, props, HashMap_new),
                        LAMBDA collected :
                            Ok(final_seek(pos, sizes.v[1], collected.pos),
                               [obj_size |-> sizes.v[1],
                                table_size |-> sizes.v[2],
                                mapping_table |-> mapping_table.v,
                                attributes |-> collected.attributes]))))

(***************************************************************************)
(* parser.rs: Class::parse, Right::parse and the counted tables.           *)
(***************************************************************************)
RECURSIVE parse_many(_, _, _, _, _)

\* Block::parse.
Block_parse(d, pos) ==
    Try(read_fields(d, pos, <<"u32", "u32">>, <<>>),
        LAMBDA r :
            Try(read_exact(d, r.pos, r.v[2]),
                LAMBDA unk3 : Ok(unk3.pos, [unk1 |-> r.v[1], unk2 |-> r.v[2],
                                            unk3 |-> unk3.v])))

\* A u32 count followed by that many items of the kind.
counted(d, pos, kind) ==
    Try(read_u32(d, pos), LAMBDA n : parse_many(d, n.pos, n.v, kind, <<>>))

\* Class::parse_unk2: a u32 length and that many bytes.
parse_unk2(d, pos) ==
    Try(read_u32(d, pos), LAMBDA n : read_exact(d, n.pos, n.v))

\* Class::parse_unknown: num_unknown * 0x10 bytes.  The u32 product wraps in
\* a release build and panics in a debug build from 2^28 on; the inputs stay
\* below, and the case is kept apart as its own error.
parse_unknown(d, pos) ==
    Try(read_u32(d, pos),
        LAMBDA n : IF n.v >= 268435456 THEN Err(n.pos, "Overflow", "num_unknown * 0x10")
                   ELSE read_exact(d, n.pos, n.v * 16))

\* The Class of its fields in the order they are read.
Class_of(names, unk2, blocks, unknown, system_poss_superiors, auxiliary_classes) ==
    Ok(auxiliary_classes.pos,
       [class_name |-> names.v[1],
        dn |-> names.v[2],
        common_class_name |-> names.v[3],
        sub_class_of |-> names.v[4],
        schema_id_guid |-> names.v[5],
        unk2 |-> unk2.v,
        blocks |-> blocks.v,
        unknown |-> unknown.v,
        system_poss_superiors |-> system_poss_superiors.v,
        auxiliary_classes |-> auxiliary_classes.v])

\* Class::parse.
Class_parse(d, pos) ==
    Try(read_fields(d, pos, <<"wstring", "wstring", "wstring", "wstring", "guid">>, <<>>),
      LAMBDA names :
        Try(parse_unk2(d, names.pos),
          LAMBDA unk2 :
            Try(counted(d, unk2.pos, "Block"),
              LAMBDA blocks :
                Try(parse_unknown(d, blocks.pos),
                  LAMBDA unknown :
                    Try(counted(d, unknown.pos, "wstring"),
                      LAMBDA system_poss_superiors :
                        Try(counted(d, system_poss_superiors.pos, "wstring"),
                          LAMBDA auxiliary_classes :
                            Class_of(names, unk2, blocks, unknown,
                                     system_poss_superiors, auxiliary_classes)))))))

\* Right::parse.
Right_parse(d, pos) ==
    Try(read_fields(d, pos, <<"wstring", "wstring", "blob">>, <<>>),
        LAMBDA r : Ok(r.pos, [name |-> r.v[1], desc |-> r.v[2], blob |-> r.v[3]]))

\* One item of the kind.
parse_one(d, pos, kind) ==
    CASE kind = "Property" -> Property_parse(d, pos)
      [] kind = "Class" -> Class_parse(d, pos)
      [] kind = "Right" -> Right_parse(d, pos)
      [] kind = "Block" -> Block_parse(d, pos)
      [] kind = "wstring" -> read_wstring(d, pos)

\* `for _ in 0..count { vec.push(parse(..)?) }` and
\* `(0..count).map(|_| parse(reader)).collect()`: count items of the kind,
\* or the first error.
parse_many(d, pos, count, kind, acc) ==
    IF count = 0 THEN Ok(pos, acc)
    ELSE Try(parse_one(d, pos, kind),
             LAMBDA r : parse_many(d, r.pos, count - 1, kind, Append(acc, r.v)))

\* parse_classes.
parse_classes(d, pos) == counted(d, pos, "Class")

\* parse_rights.
parse_rights(d, pos) == counted(d, pos, "Right")

(***************************************************************************)
(* The inputs of SpecParse: snapshot files, byte for byte.  A file is the  *)
(* 0x43e-byte header, the objects one after the other, then the property,  *)
(* class and right tables at the offset the header names.                  *)
(***************************************************************************)
u16le(n) == <<n % 256, n \div 256>>

u32le(n) == <<n % 256, (n \div 256) % 256, (n \div 65536) % 256, n \div 16777216>>

\* An i32, two's complement.
i32le(n) ==
    IF n >= 0 THEN u32le(n)
    ELSE LET m == (n + 2147483647) + 1
         IN <<m % 256, (m \div 256) % 256, (m \div 65536) % 256, (m \div 16777216) + 128>>

Zeros(n) == [i \in 1..n |-> 0]

RECURSIVE Flatten(_)
Flatten(seqs) == IF seqs = <<>> THEN <<>> ELSE Head(seqs) \o Flatten(Tail(seqs))

\* The UTF-16 code units of a string of plain ASCII characters.
utf16le(str) ==
    Flatten([i \in 1..Len(str) |->
                u16le(CHOOSE c \in 32..126 : char_string(c) = SubSeq(str, i, i))])

\* A string as read_next_wstring reads it: zero-terminated.
wstr(str) == utf16le(str) \o <<0, 0>>

\* A string as read_wstring reads it: byte length, words, terminator included.
lp_wstr(str) == u32le(2 * (Len(str) + 1)) \o wstr(str)

\* The object heap starts at 0x43e.
HeapStart == 1086

\* "win-ad-sig".
Magic == <<119, 105, 110, 45, 97, 100, 45, 115, 105, 103>>

\* The property table of every input: <<prop_name, ads_type>>, by index.
\* Types 11 and 0 are ones Attribute::parse does not decode.
PropertyTable ==
    << <<"cn", 3>>, <<"whenCreated", 9>>, <<"userAccountControl", 7>>,
       <<"blob", 11>>, <<"objectSid", 8>>, <<"isDeleted", 6>>,
       <<"uSNCreated", 10>>, <<"nTSecurityDescriptor", 25>>, <<"other", 0>> >>

PropertyBytes(p) ==
    lp_wstr(p[1]) \o i32le(0) \o u32le(p[2]) \o lp_wstr("")
        \o Zeros(16) \o Zeros(16) \o Zeros(4)

ClassBytes ==
    lp_wstr("user") \o lp_wstr("CN=User") \o lp_wstr("User") \o lp_wstr("person")
        \o Zeros(16)
        \o u32le(2) \o <<1, 2>>
        \o u32le(1) \o u32le(7) \o u32le(3) \o <<1, 2, 3>>
        \o u32le(1) \o Zeros(16)
        \o u32le(1) \o lp_wstr("top")
        \o u32le(0)

RightBytes == lp_wstr("r") \o lp_wstr("d") \o Zeros(20)

Tables ==
    u32le(Len(PropertyTable))
        \o Flatten([i \in 1..Len(PropertyTable) |-> PropertyBytes(PropertyTable[i])])
        \o u32le(1) \o ClassBytes
        \o u32le(1) \o RightBytes

HeaderBytes(sig, num_objects, fileoffset_low) ==
    sig \o i32le(1) \o Zeros(8) \o Zeros(520) \o Zeros(520)
        \o u32le(num_objects) \o u32le(Len(PropertyTable))
        \o u32le(fileoffset_low) \o u32le(0) \o u32le(0) \o i32le(0)

\* One object: obj_size, table_size, the mapping entries <<attr_index,
\* attr_offset>>, then the attribute data.
ObjectImage(obj_size, entries, body) ==
    u32le(obj_size) \o u32le(Len(entries))
        \o Flatten([i \in 1..Len(entries) |-> u32le(entries[i][1]) \o i32le(entries[i][2])])
        \o body

\* A SYSTEMTIME.
SystemTimeBytes(year, month, day, hour, minute, second) ==
    u16le(year) \o u16le(month) \o u16le(0) \o u16le(day)
        \o u16le(hour) \o u16le(minute) \o u16le(second) \o u16le(0)

\* Attribute data: one string "a"; one Integer; one UTCTime.
CnData == u32le(1) \o u32le(8) \o wstr("a")
IntegerData(n) == u32le(1) \o u32le(n)
UtcData(year, month, day, hour) ==
    u32le(1) \o SystemTimeBytes(year, month, day, hour, 0, 0)

\* cn alone.
Image_cn == ObjectImage(28, << <<0, 16>> >>, CnData)
\* cn, with four bytes of padding inside obj_size.
Image_padded == ObjectImage(32, << <<0, 16>> >>, CnData \o Zeros(4))
\* userAccountControl = 514.
Image_integer == ObjectImage(24, << <<2, 16>> >>, IntegerData(514))
\* An entry of the unsupported type 11, then cn.
Image_unsupported_cn == ObjectImage(36, << <<3, 24>>, <<0, 24>> >>, CnData)
\* cn, then an entry of the unsupported type 0.
Image_cn_unsupported == ObjectImage(36, << <<0, 24>>, <<8, 24>> >>, CnData)
\* whenCreated = 2024-02-29 12:00:00.
Image_utc == ObjectImage(36, << <<1, 16>> >>, UtcData(2024, 2, 29, 12))
\* whenCreated = 2023-02-30 (no such day), then cn.
Image_utc_bad_day_cn ==
    ObjectImage(56, << <<1, 24>>, <<0, 44>> >>, UtcData(2023, 2, 30, 12) \o CnData)
\* whenCreated with month 13 and hour 24.
Image_utc_bad_month == ObjectImage(36, << <<1, 16>> >>, UtcData(2024, 13, 1, 24))
\* An attr_offset below the start of the file, then cn.
Image_negative_far_cn == ObjectImage(36, << <<2, -5000>>, <<0, 24>> >>, CnData)
\* An attr_offset into the bytes just before the object.
Image_negative_near == ObjectImage(16, << <<2, -4>> >>, <<>>)
\* An attr_index past the property table, then cn.
Image_bad_index_cn == ObjectImage(36, << <<50, 24>>, <<0, 24>> >>, CnData)
\* cn whose string offset is past the end of the file.
Image_string_eof == ObjectImage(24, << <<0, 16>> >>, u32le(1) \o u32le(100000))
\* A table_size the file cannot hold.
Image_table_eof == u32le(8) \o u32le(100000)
\* objectSid, isDeleted, uSNCreated and nTSecurityDescriptor.
Image_kinds ==
    ObjectImage(96, << <<4, 40>>, <<5, 56>>, <<6, 64>>, <<7, 84>> >>,
                u32le(2) \o u32le(2) \o u32le(2) \o <<1, 1>> \o <<5, 0>>
                    \o IntegerData(1)
                    \o u32le(2) \o Zeros(8) \o <<1, 0, 0, 0, 0, 0, 0, 0>>
                    \o u32le(1) \o u32le(4) \o <<1, 0, 4, 128>>)

ObjectImages ==
    {Image_cn, Image_padded, Image_integer, Image_unsupported_cn,
     Image_cn_unsupported, Image_utc, Image_utc_bad_day_cn, Image_utc_bad_month,
     Image_negative_far_cn, Image_negative_near, Image_bad_index_cn,
     Image_string_eof, Image_table_eof, Image_kinds}

\* The most objects in a file.
MaxObjects == 2

\* The file holding the object images in order.
SnapshotFile(sig, images) ==
    LET heap == Flatten(images) IN
    HeaderBytes(sig, Len(images), HeapStart + Len(heap)) \o heap \o Tables

WholeFiles ==
    {SnapshotFile(Magic, images) :
        images \in UNION {[1..n -> ObjectImages] : n \in 0..MaxObjects}}

\* Files that are cut short, carry another signature, or count more objects
\* than they hold.
OtherFiles ==
    LET f == SnapshotFile(Magic, <<Image_cn>>) IN
    {<<>>,
     SubSeq(f, 1, 100),
     SubSeq(f, 1, Len(f) - 10),
     SubSeq(f, 1, HeapStart + 30),
     SnapshotFile(<<77, 90, 144, 0, 3, 0, 0, 0, 4, 255>>, <<Image_cn>>),
     HeaderBytes(Magic, 1, HeapStart) \o Tables}

Files == WholeFiles \cup OtherFiles

(***************************************************************************)
(* SpecParse: Snapshot::snapshot_from_memory.  pc is the statement about   *)
(* to run: "header", "properties", "objects" (the loop over                *)
(* 0..header.num_objects, one Object::parse a step), then "done".          *)
(***************************************************************************)
InitParse ==
    /\ pc = "header"
    /\ data \in Files
    /\ eof_seeks_end \in BOOLEAN
    /\ cursor = 0
    /\ header = None /\ properties = <<>> /\ offset_properties = 0
    /\ objects = <<>> /\ parsed = None
    /\ ace = None /\ object_type = "Unknown" /\ has_laps = FALSE /\ result = {}
    /\ sd = None /\ snapshot = None /\ aces = <<>>
    /\ AuxIdle

rights_vars == <<ace, object_type, has_laps, result, sd, snapshot, aces>>

\* `?`: the error is returned from snapshot_from_memory.
ReturnErr(e) ==
    /\ parsed' = Some(e)
    /\ cursor' = e.pos
    /\ pc' = "done"

\* After Header::parse: the seek to fileoffset_high << 32 | fileoffset_low.
HeaderParsed(r) ==
    IF r.ok
    THEN /\ header' = Some(r.v)
         /\ cursor' = IF r.v.fileoffset_high = 0 THEN r.v.fileoffset_low ELSE Huge
         /\ pc' = "properties"
         /\ UNCHANGED parsed
    ELSE /\ ReturnErr(r)
         /\ UNCHANGED header

\* `let header = Header::parse(&mut cursor)?; cursor.seek(..)?`.
ParseHeader ==
    /\ pc = "header"
    /\ HeaderParsed(Header_parse(data, cursor))
    /\ UNCHANGED <<data, eof_seeks_end, properties, offset_properties, objects, rights_vars, aux_vars>>

\* After the properties are read: offset_properties, the seek to 0x43e.
PropertiesParsed(r) ==
    IF r.ok
    THEN /\ properties' = r.v
         /\ offset_properties' = r.pos
         /\ cursor' = HeapStart
         /\ pc' = "objects"
         /\ UNCHANGED parsed
    ELSE /\ ReturnErr(r)
         /\ UNCHANGED <<properties, offset_properties>>

\* num_properties, the properties, offset_properties, the seek to 0x43e.
ParseProperties ==
    /\ pc = "properties"
    /\ PropertiesParsed(counted(data, cursor, "Property"))
    /\ UNCHANGED <<data, eof_seeks_end, header, objects, rights_vars, aux_vars>>

\* `objects.push(Object::parse(&mut cursor, &properties)?)`.
ObjectParsed(r) ==
    IF r.ok
    THEN /\ objects' = Append(objects, r.v)
         /\ cursor' = r.pos
         /\ UNCHANGED <<pc, parsed>>
    ELSE /\ ReturnErr(r)
         /\ UNCHANGED objects

\* One turn of `for _ in 0..header.num_objects`.
ParseObject ==
    /\ pc = "objects"
    /\ Len(objects) < header.v.num_objects
    /\ ObjectParsed(Object_parse(data, cursor, properties))
    /\ UNCHANGED <<data, eof_seeks_end, header, properties, offset_properties, rights_vars, aux_vars>>

\* parse_classes, then parse_rights, and the Snapshot.
classes_and_rights(d, pos) ==
    Try(parse_classes(d, pos),
        LAMBDA classes :
            Try(parse_rights(d, classes.pos),
                LAMBDA rights_table :
                    Ok(rights_table.pos, [header |-> header.v,
                                          properties |-> properties,
                                          objects |-> objects,
                                          classes |-> classes.v,
                                          rights |-> rights_table.v])))

\* `Ok(result)`, or the error of parse_classes or parse_rights.
Return(r) ==
    /\ parsed' = Some(r)
    /\ cursor' = r.pos
    /\ pc' = "done"

\* After the loop: the seek to offset_properties, parse_classes,
\* parse_rights, and the Snapshot returned.
ParseClassesAndRights ==
    /\ pc = "objects"
    /\ Len(objects) >= header.v.num_objects
    /\ Return(classes_and_rights(data, offset_properties))
    /\ UNCHANGED <<data, eof_seeks_end, header, properties, offset_properties, objects, rights_vars, aux_vars>>

NextParse ==
    \/ ParseHeader
    \/ ParseProperties
    \/ ParseObject
    \/ ParseClassesAndRights

SpecParse == InitParse /\ [][NextParse]_vars

(***************************************************************************)
(* Properties of Object::parse inside Snapshot::snapshot_from_memory.      *)
(***************************************************************************)

\* The mapping table of the object that starts at pos, as Object::parse
\* reads it before it decodes any attribute.
mapping_table_at(d, pos) ==
    Try(read_fields(d, pos, <<"u32", "u32">>, <<>>),
        LAMBDA sizes : read_mapping_table(d, sizes.pos, sizes.v[2]))

\* The step is one successful Object::parse.
ObjectPushed == pc = "objects" /\ Len(objects') = Len(objects) + 1

\* The step returns an error from snapshot_from_memory.
Aborted == pc' = "done" /\ parsed'.some /\ ~parsed'.v.ok

\* The entry refers to a property that exists.
has_property(entry) == properties_get(properties, entry.attr_index).some

\* The name of the entry's property.
name_of(entry) == properties_get(properties, entry.attr_index).v.prop_name

\* The entry refers to a property of an ADS type Attribute::parse rejects.
unsupported_entry(entry) ==
    /\ has_property(entry)
    /\ properties_get(properties, entry.attr_index).v.ads_type \notin SupportedAdsTypes

\* The entry of the object at start_pos yields an attribute.
decodes(start_pos, entry) == entry_attribute(data, start_pos, 0, entry, properties).kv.some

\* The entry of the object at start_pos is a UTCTime whose SystemTime is no
\* timestamp.
invalid_utc_entry(start_pos, entry) ==
    /\ has_property(entry)
    /\ properties_get(properties, entry.attr_index).v.ads_type = 9
    /\ attr_pos_of(start_pos, entry.attr_offset).some
    /\ Let(Attribute_parse(data, attr_pos_of(start_pos, entry.attr_offset).v, 9),
           LAMBDA attribute : ~attribute.ok /\ attribute.msg = "Invalid UTC time")

\* The entry of the object at start_pos has a negative offset that reaches
\* before the start of the file.
negative_address_entry(start_pos, entry) ==
    /\ has_property(entry)
    /\ entry.attr_offset < 0
    /\ start_pos + entry.attr_offset < 0

\* The object about to be parsed has a readable mapping table with an entry
\* for which P(cursor, entry) holds.
NextObjectHas(P(_, _)) ==
    /\ pc = "objects"
    /\ Len(objects) < header.v.num_objects
    /\ Let(mapping_table_at(data, cursor),
           LAMBDA mapping_table :
               /\ mapping_table.ok
               /\ \E i \in DOMAIN mapping_table.v : P(cursor, mapping_table.v[i]))

\* C1: whenever Object::parse returns successfully, the cursor is exactly
\* at the object's start plus its obj_size, whatever the mapping table held
\* (entries of either offset sign, of any property index, decoded or not).
C1_CursorAdvancesObjSize ==
    [][ObjectPushed => cursor' = pos_add(cursor, objects'[Len(objects')].obj_size)]_vars

\* C1's case: an object has been parsed whose mapping table holds a negative
\* offset and an entry that was dropped, and the cursor is obj_size past the
\* first object's start.
C1_Witness ==
    /\ pc = "objects"
    /\ Len(objects) = 1
    /\ \E i \in DOMAIN objects[1].mapping_table : objects[1].mapping_table[i].attr_offset < 0
    /\ \E i \in DOMAIN objects[1].mapping_table : objects[1].mapping_table[i].attr_offset > 0
    /\ Cardinality(DOMAIN objects[1].attributes) < Len(objects[1].mapping_table)
    /\ objects[1].attributes # HashMap_new
    /\ cursor = HeapStart + objects[1].obj_size

\* C8: an object with a mapping entry to a UTCTime property whose SystemTime
\* is out of range makes snapshot_from_memory return an error.
C8_InvalidUtcTimeAborts ==
    [][NextObjectHas(invalid_utc_entry) => Aborted]_vars

\* The last object parsed by the step.
pushed == objects'[Len(objects')]

\* C9: an entry whose property has an unsupported ADS type is not fatal: the
\* object is produced and the loop goes on, every entry of the object that
\* decodes is in its attribute map, and the unsupported entry contributes
\* nothing (its name is a key only if another entry of that name decodes).
C9_UnsupportedAdsTypeNonFatal ==
    [][NextObjectHas(LAMBDA start_pos, entry : unsupported_entry(entry)) =>
          /\ ObjectPushed
          /\ pc' = "objects" /\ parsed' = None
          /\ \A i \in DOMAIN pushed.mapping_table :
                decodes(cursor, pushed.mapping_table[i])
                    => name_of(pushed.mapping_table[i]) \in DOMAIN pushed.attributes
          /\ \A k \in DOMAIN pushed.attributes :
                \E i \in DOMAIN pushed.mapping_table :
                    /\ decodes(cursor, pushed.mapping_table[i])
                    /\ ~unsupported_entry(pushed.mapping_table[i])
                    /\ name_of(pushed.mapping_table[i]) = k]_vars

\* C9's case: two objects have been parsed, the first of which has an entry
\* of an unsupported ADS type beside an entry that was decoded.
C9_Witness ==
    /\ Len(objects) = 2
    /\ \E i \in DOMAIN objects[1].mapping_table : unsupported_entry(objects[1].mapping_table[i])
    /\ Len(objects[1].mapping_table) >= 2
    /\ objects[1].attributes # HashMap_new

\* C10: a mapping entry whose negative offset reaches before the start of the
\* file makes snapshot_from_memory return an error.
C10_NegativeAddressAborts ==
    [][NextObjectHas(negative_address_entry) => Aborted]_vars

(***************************************************************************)
(* nom over &[u8]: a parser applied to the input d from position pos       *)
(* yields Ok(pos', v), pos' being where the remaining input starts, or     *)
(* Err(pos, "Eof", ..) for nom::Err::Error on a short input.  A panic      *)
(* (panic!, unimplemented!, an index out of range) is the record           *)
(* Panic(pos, msg): like an Err it ends every caller, but it is no value   *)
(* returned to anyone.                                                     *)
(***************************************************************************)
Panic(pos, msg) == [ok |-> FALSE, pos |-> pos, kind |-> "panic", msg |-> msg]

\* The result is a value (Ok or Err) handed back to the caller.
returns(r) == r.ok \/ r.kind # "panic"

\* nom::bytes::complete::take(n).
take(d, pos, n) ==
    IF n <= Len(d) - pos THEN Ok(pos + n, SubSeq(d, pos + 1, pos + n))
    ELSE Err(pos, "Eof", "nom::Err::Error")

\* nom::number::complete::le_u8.
le_u8(d, pos) == Try(take(d, pos, 1), LAMBDA r : Ok(r.pos, r.v[1]))

\* nom::number::complete::le_u16.
le_u16(d, pos) == Try(take(d, pos, 2), LAMBDA r : Ok(r.pos, u16_from_le_bytes(r.v)))

\* nom::number::complete::le_u32.
le_u32(d, pos) == Try(take(d, pos, 4), LAMBDA r : Ok(r.pos, u32_from_le_bytes(r.v)))

\* nom::multi::count(le_u32, n): n words, or Eof at the first one cut short.
count_le_u32(d, pos, n) ==
    IF 4 * n <= Len(d) - pos
    THEN Ok(pos + 4 * n,
            [i \in 1..n |-> u32_from_le_bytes(SubSeq(d, pos + 4 * i - 3, pos + 4 * i))])
    ELSE Err(pos + 4 * ((Len(d) - pos) \div 4), "Eof", "nom::Err::Error")

(***************************************************************************)
(* sid.rs: parse_sid, SID::from_bytes, impl FromStr for SID.               *)
(***************************************************************************)

\* `sid.sub_authorities[..sub_authority_count as usize].copy_from_slice(..)`
\* on the array of 15: the range end is checked against the array's length.
copy_sub_authorities(pos, revision, sub_authority_count, identifier_authority, subs) ==
    IF sub_authority_count > 15
    THEN Panic(pos, "range end index out of range for slice of length 15")
    ELSE Ok(pos, [revision |-> revision,
                  identifier_authority |-> identifier_authority,
                  sub_authorities |-> subs])

\* parse_sid: revision and sub_authority_count (a byte each), six authority
\* bytes, then sub_authority_count little-endian words.
parse_sid(d, pos) ==
    Try(take(d, pos, 2),
        LAMBDA head :
            Try(take(d, head.pos, 6),
                LAMBDA identifier_authority :
                    Try(count_le_u32(d, identifier_authority.pos, head.v[2]),
                        LAMBDA sub_authorities :
                            copy_sub_authorities(sub_authorities.pos, head.v[1], head.v[2],
                                                 identifier_authority.v,
                                                 sub_authorities.v))))

\* SID::from_bytes: the remaining input is dropped.
SID_from_bytes(d) == parse_sid(d, 0)

(***************************************************************************)
(* ace.rs: parse_ace_header, parse_ace and the parsers of the five kinds.  *)
(* An ACE is [kind, header |-> [ace_type, ace_flags, ace_size], mask, sid] *)
(* and, for the *Object kinds, flags, object_type, inherited_object_type   *)
(* (and application_data for SystemAuditObject).                           *)
(***************************************************************************)

\* enum ACEType, in the order of its discriminants 0x00..0x13.
ACETypeNames ==
    <<"AccessAllowed", "AccessDenied", "SystemAudit", "SystemAlarm",
      "AccessAllowedCompound", "AccessAllowedObject", "AccessDeniedObject",
      "SystemAuditObject", "SystemAlarmObject", "AccessAllowedCallback",
      "AccessDeniedCallback", "AccessAllowedCallbackObject",
      "AccessDeniedCallbackObject", "SystemAuditCallback", "SystemAlarmCallback",
      "SystemAuditCallbackObject", "SystemAlarmCallbackObject",
      "SystemMandatoryLabel", "SystemResourceAttribute", "SystemScopedPolicyId">>

\* impl From<u8> for ACEType: a byte above 0x13 panics.
ACEType_from(pos, value) ==
    IF value < Len(ACETypeNames) THEN Ok(pos, ACETypeNames[value + 1])
    ELSE Panic(pos, "Invalid ACE type")

\* parse_ace_header: ace_type, ace_flags (a byte each), ace_size (le_u16).
parse_ace_header(d, pos) ==
    Try(take(d, pos, 4),
        LAMBDA r :
            Try(ACEType_from(r.pos, r.v[1]),
                LAMBDA ace_type :
                    Ok(r.pos, [ace_type |-> ace_type.v,
                               ace_flags |-> r.v[2],
                               ace_size |-> u16_from_le_bytes(SubSeq(r.v, 3, 4))])))

\* parse_access_allowed_ace and parse_access_denied_ace: mask, then the SID.
parse_access_allowed_ace(d, pos, hdr) ==
    Try(le_u32(d, pos),
        LAMBDA mask :
            Try(parse_sid(d, mask.pos),
                LAMBDA sid : Ok(sid.pos, [kind |-> hdr.ace_type, header |-> hdr,
                                          mask |-> mask.v, sid |-> sid.v])))

\* `if flags & bit != 0 { GUID::from_next_bytes(input)? }`.
optional_guid(d, pos, present) ==
    IF present
    THEN Try(take(d, pos, 16), LAMBDA g : Ok(g.pos, parse_guid(g.v)))
    ELSE Ok(pos, None)

\* mask, flags and the two optional GUIDs of an *Object ACE.  The flag bits
\* are read from the low byte of flags.
object_ace_fields(d, pos) ==
    Try(le_u32(d, pos),
        LAMBDA mask :
            Try(take(d, mask.pos, 4),
                LAMBDA flags :
                    Try(optional_guid(d, flags.pos, flags.v[1] % 2 = 1),
                        LAMBDA ot :
                            Try(optional_guid(d, ot.pos,
                                              (flags.v[1] \div 2) % 2 = 1),
                                LAMBDA inherited_object_type :
                                    Ok(inherited_object_type.pos,
                                       [mask |-> mask.v,
                                        flags |-> u32_from_le_bytes(flags.v),
                                        object_type |-> ot.v,
                                        inherited_object_type |->
                                            inherited_object_type.v])))))

\* parse_access_allowed_object_ace and parse_access_denied_object_ace.
parse_access_allowed_object_ace(d, pos, hdr) ==
    Try(object_ace_fields(d, pos),
        LAMBDA f :
            Try(parse_sid(d, f.pos),
                LAMBDA sid :
                    Ok(sid.pos, [kind |-> hdr.ace_type, header |-> hdr,
                                 mask |-> f.v.mask, flags |-> f.v.flags,
                                 object_type |-> f.v.object_type,
                                 inherited_object_type |-> f.v.inherited_object_type,
                                 sid |-> sid.v])))

\* `let app_data_size = header.ace_size as usize`.
app_data_size(hdr) == hdr.ace_size

\* parse_system_audit_object_ace: the fields of an *Object ACE, 8 bytes
\* that are dropped, the SID, then app_data_size bytes.
parse_system_audit_object_ace(d, pos, hdr) ==
    Try(object_ace_fields(d, pos),
        LAMBDA f :
            Try(take(d, f.pos, 8),
                LAMBDA skipped :
                    Try(parse_sid(d, skipped.pos),
                        LAMBDA sid :
                            Try(take(d, sid.pos, app_data_size(hdr)),
                                LAMBDA application_data :
                                    Ok(application_data.pos,
                                       [kind |-> hdr.ace_type, header |-> hdr,
                                        mask |-> f.v.mask, flags |-> f.v.flags,
                                        object_type |-> f.v.object_type,
                                        inherited_object_type |->
                                            f.v.inherited_object_type,
                                        sid |-> sid.v,
                                        application_data |-> application_data.v])))))

\* The `match header.ace_type` of parse_ace.
parse_ace_body(d, pos, hdr) ==
    CASE hdr.ace_type \in {"AccessAllowed", "AccessDenied"} ->
           parse_access_allowed_ace(d, pos, hdr)
      [] hdr.ace_type \in {"AccessAllowedObject", "AccessDeniedObject"} ->
           parse_access_allowed_object_ace(d, pos, hdr)
      [] hdr.ace_type = "SystemAuditObject" ->
           parse_system_audit_object_ace(d, pos, hdr)
      [] OTHER -> Panic(pos, "not implemented: ACE type not implemented")

\* parse_ace.
parse_ace(d, pos) ==
    Try(parse_ace_header(d, pos),
        LAMBDA hdr : parse_ace_body(d, hdr.pos, hdr.v))

(***************************************************************************)
(* acl.rs: parse_acl.                                                      *)
(***************************************************************************)

\* The header of parse_acl: five fields, then the three checks that panic.
parse_acl_header(d, pos) ==
    Try(take(d, pos, 8),
        LAMBDA r :
            IF r.v[1] # 2 /\ r.v[1] # 4
            THEN Panic(r.pos, "ACL revision must be 2 or 4")
            ELSE IF r.v[2] # 0 THEN Panic(r.pos, "sbz1 must be 0")
            ELSE IF u16_from_le_bytes(SubSeq(r.v, 7, 8)) # 0
            THEN Panic(r.pos, "sbz2 must be 0")
            ELSE Ok(r.pos, [acl_revision |-> r.v[1],
                            sbz1 |-> r.v[2],
                            acl_size |-> u16_from_le_bytes(SubSeq(r.v, 3, 4)),
                            ace_count |-> u16_from_le_bytes(SubSeq(r.v, 5, 6)),
                            sbz2 |-> u16_from_le_bytes(SubSeq(r.v, 7, 8)),
                            aces |-> <<>>]))

(***************************************************************************)
(* SpecAcl: parse_acl applied to the bytes of one ACL.  pc is "header",    *)
(* then "aces" (count(parse_ace, ace_count), one parse_ace a step), then   *)
(* "done" with the outcome: the ACL, a nom error, or a panic.              *)
(***************************************************************************)

\* SECURITY_NT_AUTHORITY.
NtAuthority == <<0, 0, 0, 0, 0, 5>>

\* The bytes of a SID.
SidBytes(revision, sub_authority_count, authority, subs) ==
    <<revision, sub_authority_count>> \o authority
        \o Flatten([i \in 1..Len(subs) |-> u32le(subs[i])])

\* The bytes of an ACE: type, flags, ace_size, body.
AceBytes(ace_type, ace_flags, ace_size, body) ==
    <<ace_type, ace_flags>> \o u16le(ace_size) \o body

\* mask 0x000F01FF and the SID S-1-5-21-1104.
MaskAndSid == u32le(983551) \o SidBytes(1, 2, NtAuthority, <<21, 1104>>)

Ace_allowed == AceBytes(0, 0, 24, MaskAndSid)
Ace_denied == AceBytes(1, 16, 24, MaskAndSid)
Ace_allowed_padded == AceBytes(0, 0, 28, MaskAndSid \o Zeros(4))
Ace_allowed_object ==
    AceBytes(5, 0, 44, u32le(256) \o u32le(1) \o Wire_WriteMember
                           \o SidBytes(1, 2, NtAuthority, <<21, 1104>>))
Ace_denied_object ==
    AceBytes(6, 0, 60, u32le(256) \o u32le(3) \o Wire_WriteMember \o Wire_WriteSPN
                           \o SidBytes(1, 2, NtAuthority, <<21, 1104>>))
Ace_audit_object ==
    AceBytes(7, 64, 56, u32le(256) \o u32le(1) \o Wire_WriteMember \o Zeros(8)
                            \o SidBytes(1, 2, NtAuthority, <<21, 1104>>) \o <<1, 2, 3, 4>>)
Ace_system_audit == AceBytes(2, 64, 24, MaskAndSid)
Ace_mandatory_label == AceBytes(17, 0, 24, MaskAndSid)
Ace_type_above_0x13 == AceBytes(20, 0, 24, MaskAndSid)
Ace_type_0xff == AceBytes(255, 0, 24, MaskAndSid)
Ace_cut_short == <<0, 0, 24>>

AceImages ==
    {Ace_allowed, Ace_denied, Ace_allowed_padded, Ace_allowed_object,
     Ace_denied_object, Ace_audit_object, Ace_system_audit, Ace_mandatory_label,
     Ace_type_above_0x13, Ace_type_0xff, Ace_cut_short}

\* The bytes of an ACL with the given header fields and ACEs.
AclBytes(acl_revision, sbz1, ace_count, sbz2, ace_images) ==
    <<acl_revision, sbz1>> \o u16le(8 + Len(Flatten(ace_images)))
        \o u16le(ace_count) \o u16le(sbz2) \o Flatten(ace_images)

MaxAclAces == 2

\* ACLs of revision 2 and 4 with up to MaxAclAces ACEs, ACLs whose header
\* fails a check, whose ace_count exceeds the ACEs present, and inputs too
\* short for the header.
AclInputs ==
    {AclBytes(r, 0, Len(a), 0, a) :
        r \in {2, 4}, a \in UNION {[1..n -> AceImages] : n \in 0..MaxAclAces}}
    \cup {AclBytes(h[1], h[2], 1, h[3], <<Ace_allowed>>) :
            h \in {<<1, 0, 0>>, <<3, 0, 0>>, <<0, 0, 0>>, <<2, 1, 0>>, <<4, 0, 1>>,
                   <<2, 0, 256>>, <<5, 7, 9>>}}
    \cup {AclBytes(2, 0, 2, 0, <<Ace_allowed>>), <<>>, <<2, 0, 8, 0>>}

InitAcl ==
    /\ pc = "header"
    /\ input \in AclInputs
    /\ acl_rest = 0 /\ acl = None /\ outcome = None
    /\ sid_string = None /\ sid_from_str = None
    /\ dn_cache = <<>> /\ call = None /\ returned = None /\ archive = None
    /\ ace = None /\ object_type = "Unknown" /\ has_laps = FALSE /\ result = {}
    /\ sd = None /\ snapshot = None /\ aces = <<>>
    /\ ParseIdle

\* The variables SpecAcl leaves alone.
acl_idle_vars == <<input, sid_string, sid_from_str, dn_cache, archive, call, returned,
                   rights_vars, parse_vars>>

\* parse_acl ends: with the ACL, with nom's error, or in a panic.
AclReturn(r) ==
    /\ outcome' = Some(r)
    /\ pc' = "done"

\* After the header of parse_acl.
AclHeaderParsed(r) ==
    IF r.ok
    THEN /\ acl' = Some(r.v)
         /\ acl_rest' = r.pos
         /\ pc' = "aces"
         /\ UNCHANGED outcome
    ELSE /\ AclReturn(r)
         /\ UNCHANGED <<acl, acl_rest>>

\* The five header fields and the checks on revision, sbz1 and sbz2.
ParseAclHeader ==
    /\ pc = "header"
    /\ AclHeaderParsed(parse_acl_header(input, acl_rest))
    /\ UNCHANGED acl_idle_vars

\* After one parse_ace of count(parse_ace, ace_count).
AceParsed(r) ==
    IF r.ok
    THEN /\ acl' = Some([acl.v EXCEPT !.aces = Append(@, r.v)])
         /\ acl_rest' = r.pos
         /\ UNCHANGED <<pc, outcome>>
    ELSE /\ AclReturn(r)
         /\ UNCHANGED <<acl, acl_rest>>

\* One turn of count(parse_ace, ace_count).
ParseAce ==
    /\ pc = "aces"
    /\ Len(acl.v.aces) < acl.v.ace_count
    /\ AceParsed(parse_ace(input, acl_rest))
    /\ UNCHANGED acl_idle_vars

\* `Ok((input, ACL { .. }))`.
ReturnAcl ==
    /\ pc = "aces"
    /\ Len(acl.v.aces) >= acl.v.ace_count
    /\ AclReturn(Ok(acl_rest, acl.v))
    /\ UNCHANGED <<acl, acl_rest, acl_idle_vars>>

NextAcl ==
    \/ ParseAclHeader
    \/ ParseAce
    \/ ReturnAcl

SpecAcl == InitAcl /\ [][NextAcl]_vars

\* The ACE this turn of the loop is about to read has a whole header and a
\* type byte outside AccessAllowed, AccessDenied, AccessAllowedObject,
\* AccessDeniedObject and SystemAuditObject.
unsupported_ace_ahead ==
    /\ pc = "aces"
    /\ Len(acl.v.aces) < acl.v.ace_count
    /\ acl_rest + 4 <= Len(input)
    /\ input[acl_rest + 1] \notin {0, 1, 5, 6, 7}

\* C11: an ACE of an unsupported type (type bytes above 0x13 included) is
\* dropped and the ACL's parsing goes on: the step that meets it does not end
\* parse_acl, neither with an error nor with a panic.
C11_UnsupportedAceNonFatal ==
    [][unsupported_ace_ahead => (pc' = "aces" /\ outcome' = None)]_vars

\* The ACL header is whole and fails one of its three checks.
bad_acl_header(d) ==
    /\ Len(d) >= 8
    /\ (d[1] \notin {2, 4} \/ d[2] # 0 \/ d[7] # 0 \/ d[8] # 0)

\* C12: parse_acl on an ACL whose revision is neither 2 nor 4, or whose sbz1
\* or sbz2 is not zero, returns an error value to its caller; it does not
\* panic.
C12_BadAclHeaderReturnsError ==
    (pc = "done" /\ outcome # None /\ bad_acl_header(input))
        => (returns(outcome.v) /\ ~outcome.v.ok)

\* This step decoded one ACE.
ace_decoded == pc = "aces" /\ pc' = "aces" /\ acl' # acl

\* C13: every decoded ACE takes exactly header.ace_size bytes counted from
\* the first byte of its header, so the next ACE starts at ace_start +
\* ace_size.
C13_AceConsumesAceSize ==
    [][ace_decoded =>
        acl_rest' = acl_rest + acl'.v.aces[Len(acl'.v.aces)].header.ace_size]_vars

(***************************************************************************)
(* sid.rs: impl FromStr for SID.  Integers of the model stay below 2^31,   *)
(* so do the authorities and sub-authorities of its SIDs.                  *)
(***************************************************************************)

\* str::split(ch): the pieces between the separators, empty ones included.
RECURSIVE split_from(_, _, _, _)
split_from(str, ch, start, i) ==
    IF i > Len(str) THEN <<SubSeq(str, start, Len(str))>>
    ELSE IF SubSeq(str, i, i) = ch
         THEN <<SubSeq(str, start, i - 1)>> \o split_from(str, ch, i + 1, i + 1)
         ELSE split_from(str, ch, start, i + 1)

split(str, ch) == split_from(str, ch, 1, 1)

\* char::to_digit(10): -1 for what is no decimal digit.
to_digit(ch) ==
    IF \E v \in 1..10 : DecDigits[v] = ch
    THEN (CHOOSE v \in 1..10 : DecDigits[v] = ch) - 1
    ELSE -1

\* The digit loop of from_str_radix: checked multiply and add up to max.
RECURSIVE parse_digits(_, _, _, _)
parse_digits(str, i, acc, max) ==
    IF i > Len(str) THEN Ok(0, acc)
    ELSE IF to_digit(SubSeq(str, i, i)) < 0
         THEN Err(0, "String", "invalid digit found in string")
    ELSE IF acc > (max - to_digit(SubSeq(str, i, i))) \div 10
         THEN Err(0, "String", "number too large to fit in target type")
    ELSE parse_digits(str, i + 1, acc * 10 + to_digit(SubSeq(str, i, i)), max)

\* str::parse::<u8 / u32 / u64>().map_err(|e| e.to_string()): an optional
\* "+" and then at least one digit.
parse_unsigned(str, max) ==
    IF str = "" THEN Err(0, "String", "cannot parse integer from empty string")
    ELSE IF str = "+" THEN Err(0, "String", "invalid digit found in string")
    ELSE IF SubSeq(str, 1, 1) = "+" THEN parse_digits(str, 2, 0, max)
    ELSE parse_digits(str, 1, 0, max)

u8_MAX == 255

\* `auth.to_be_bytes()[2..]`.
to_be_bytes_2(auth) ==
    <<0, 0, (auth \div 16777216) % 256, (auth \div 65536) % 256,
      (auth \div 256) % 256, auth % 256>>

\* `parts[3..].iter().map(|&s| s.parse::<u32>()).collect::<Result<Vec<_>, _>>()`.
RECURSIVE parse_sub_authorities(_)
parse_sub_authorities(parts) ==
    IF parts = <<>> THEN Ok(0, <<>>)
    ELSE Try(parse_unsigned(Head(parts), Huge), LAMBDA sub :
             Try(parse_sub_authorities(Tail(parts)), LAMBDA others :
                 Ok(0, <<sub.v>> \o others.v)))

\* from_str after the split.
from_parts(parts) ==
    IF Len(parts) < 3 \/ parts[1] # "S" THEN Err(0, "String", "Invalid SID format")
    ELSE Try(parse_unsigned(parts[2], u8_MAX), LAMBDA revision :
         Try(parse_unsigned(parts[3], Huge), LAMBDA auth :
         Try(parse_sub_authorities(SubSeq(parts, 4, Len(parts))), LAMBDA sub_authorities :
             IF Len(sub_authorities.v) > 15
             THEN Err(0, "String", "Too many sub-authorities")
             ELSE Ok(0, [revision |-> revision.v,
                         identifier_authority |-> to_be_bytes_2(auth.v),
                         sub_authorities |-> sub_authorities.v]))))

\* <SID as FromStr>::from_str.
SID_from_str(str) == from_parts(split(str, "-"))

(***************************************************************************)
(* SpecSid: SID::from_bytes on some bytes and, when it yields a SID,       *)
(* to_string and from_str of the result.                                   *)
(***************************************************************************)

\* The sub_authority_count bytes tried with as many sub-authorities behind.
MaxSidCount == 17

SidAuthorities == {NtAuthority, <<0, 0, 0, 0, 0, 0>>, <<0, 0, 127, 1, 0, 16>>}

\* Three ways to fill n sub-authorities.
SubAuthorityFill(n) ==
    {[i \in 1..n |-> 21], [i \in 1..n |-> 1000 * i + 544], [i \in 1..n |-> (i + 1) % 2]}

SidInputs ==
    {SidBytes(1, n, a, s) : n \in {0}, a \in SidAuthorities, s \in {<<>>}}
    \cup UNION {{SidBytes(1, n, NtAuthority, s) : s \in SubAuthorityFill(n)} : n \in 1..MaxSidCount}
    \cup {SidBytes(r, 2, a, <<32, 544>>) : r \in {0, 1, 255}, a \in SidAuthorities}
    \* more bytes than the SID takes, and fewer
    \cup {SidBytes(1, 1, NtAuthority, <<18>>) \o <<9, 9>>,
          SidBytes(1, 16, NtAuthority, [i \in 1..15 |-> 7]),
          SidBytes(1, 255, NtAuthority, [i \in 1..16 |-> 7]),
          SidBytes(1, 3, NtAuthority, <<21, 1>>),
          <<1, 2, 0, 0, 0>>, <<1>>, <<>>}

InitSid ==
    /\ pc = "from_bytes"
    /\ input \in SidInputs
    /\ acl_rest = 0 /\ acl = None /\ outcome = None
    /\ sid_string = None /\ sid_from_str = None
    /\ dn_cache = <<>> /\ call = None /\ returned = None /\ archive = None
    /\ ace = None /\ object_type = "Unknown" /\ has_laps = FALSE /\ result = {}
    /\ sd = None /\ snapshot = None /\ aces = <<>>
    /\ ParseIdle

\* The variables SpecSid leaves alone.
sid_idle_vars == <<input, acl_rest, acl, dn_cache, archive, call, returned, rights_vars, parse_vars>>

\* After SID::from_bytes.
SidParsed(r) ==
    /\ outcome' = Some(r)
    /\ pc' = IF r.ok THEN "to_string" ELSE "done"

\* `SID::from_bytes(input)`.
SidFromBytes ==
    /\ pc = "from_bytes"
    /\ SidParsed(SID_from_bytes(input))
    /\ UNCHANGED <<sid_string, sid_from_str, sid_idle_vars>>

\* `sid.to_string()`.
SidToString ==
    /\ pc = "to_string"
    /\ sid_string' = Some(SID_to_string(outcome.v.v))
    /\ pc' = "from_str"
    /\ UNCHANGED <<outcome, sid_from_str, sid_idle_vars>>

\* `SID::from_str(&string)`.
SidFromStr ==
    /\ pc = "from_str"
    /\ sid_from_str' = Some(SID_from_str(sid_string.v))
    /\ pc' = "done"
    /\ UNCHANGED <<outcome, sid_string, sid_idle_vars>>

NextSid ==
    \/ SidFromBytes
    \/ SidToString
    \/ SidFromStr

SpecSid == InitSid /\ [][NextSid]_vars

\* C14: reading a SID whose sub_authority_count byte is above 15 returns an
\* error, also when the input holds all 8 + 4 * count bytes; it neither
\* panics nor yields a SID.
C14_TooManySubAuthoritiesRejected ==
    (outcome # None /\ Len(input) >= 2 /\ input[2] > 15)
        => (returns(outcome.v) /\ ~outcome.v.ok)

\* C16: for every SID decoded from bytes, those without sub-authorities
\* included, from_str of its to_string succeeds and gives the same SID.
C16_SidStringRoundTrip ==
    sid_from_str # None => (sid_from_str.v.ok /\ sid_from_str.v.v = outcome.v.v)

\* The input holds ten bytes or more and they are not "win-ad-sig".
wrong_magic(d) == Len(d) >= 10 /\ SubSeq(d, 1, 10) # Magic

\* C15: snapshot_from_memory on input whose first ten bytes are not the
\* ASCII string "win-ad-sig" fails and returns no Snapshot.
C15_MagicValidated ==
    (pc = "done" /\ parsed # None /\ wrong_magic(data)) => ~parsed.v.ok

(***************************************************************************)
(* cache.rs: DNCache.  The cache is a function from the stored key to the  *)
(* object's index.  The letters of the model's DNs are ASCII.              *)
(***************************************************************************)
LowercaseLetters == "abcdefghijklmnopqrstuvwxyz"
UppercaseLetters == "ABCDEFGHIJKLMNOPQRSTUVWXYZ"

\* The upper-case letter of every lower-case one.
UppercaseOf ==
    [ch \in {SubSeq(LowercaseLetters, i, i) : i \in 1..26} |->
        LET i == CHOOSE i \in 1..26 : SubSeq(LowercaseLetters, i, i) = ch
        IN SubSeq(UppercaseLetters, i, i)]

\* char::to_uppercase.
char_to_uppercase(ch) == IF ch \in DOMAIN UppercaseOf THEN UppercaseOf[ch] ELSE ch

\* str::to_uppercase.
RECURSIVE to_uppercase(_)
to_uppercase(str) ==
    IF str = "" THEN ""
    ELSE char_to_uppercase(SubSeq(str, 1, 1)) \o to_uppercase(SubSeq(str, 2, Len(str)))

\* str::ends_with.
ends_with(str, suffix) ==
    /\ Len(suffix) <= Len(str)
    /\ SubSeq(str, Len(str) - Len(suffix) + 1, Len(str)) = suffix

\* `str.matches(ch).count()`.
matches_count(str, ch) == Cardinality({i \in 1..Len(str) : SubSeq(str, i, i) = ch})

\* HashMap::get.
HashMap_get(cache, key) == IF key \in DOMAIN cache THEN Some(cache[key]) ELSE None

\* DNCache::get.
DNCache_get(cache, key) == HashMap_get(cache, to_uppercase(key))

\* DNCache::insert that stores the key as it is given.
DNCache_insert_verbatim(cache, key, value) == HashMap_insert(cache, key, value)

\* DNCache::insert.
DNCache_insert(cache, key, value) == HashMap_insert(cache, to_uppercase(key), value)

\* The two tests of get_ou_children's loop without the count of commas.
is_ou_child_any_depth(dn, ou_dn_upper) ==
    /\ dn # ou_dn_upper
    /\ (ends_with(dn, "," \o ou_dn_upper) \/ dn = ou_dn_upper)

\* The two tests of get_ou_children's loop on one entry.
is_ou_child(dn, ou_dn_upper) ==
    /\ dn # ou_dn_upper
    /\ (ends_with(dn, "," \o ou_dn_upper) \/ dn = ou_dn_upper)
    /\ matches_count(SubSeq(dn, 1, Len(dn) - Len(ou_dn_upper)), ",") <= 1

\* The HashSet `children` at the end of get_ou_children's loop.
ou_children(cache, ou_dn) ==
    Let(to_uppercase(ou_dn), LAMBDA ou_dn_upper :
        {cache[dn] : dn \in {k \in DOMAIN cache : is_ou_child(k, ou_dn_upper)}})

\* DNCache::get_ou_children: the Vecs `children.into_iter().collect()` may be.
get_ou_children(cache, ou_dn) == iteration_orders(ou_children(cache, ou_dn))

(***************************************************************************)
(* SpecDnCache: a DNCache under any sequence of insert, get and            *)
(* get_ou_children calls.  `call` is the last call, `returned` its result. *)
(***************************************************************************)

\* A DN in upper case together with spellings that differ from it in letter
\* case only.
Family(upper, others) == [upper |-> upper, variants |-> {upper} \cup others]

Dn_domain == Family("DC=F", {"dc=f"})
Dn_ou == Family("OU=X,DC=F", {"ou=x,dc=f", "Ou=x,dc=F"})
Dn_child == Family("CN=A,OU=X,DC=F", {"cn=a,ou=x,dc=f"})
Dn_child_ou == Family("OU=Y,OU=X,DC=F", {"ou=Y,ou=X,dc=F"})
Dn_grandchild == Family("CN=C,OU=Y,OU=X,DC=F", {"cn=c,ou=y,ou=x,dc=f"})
Dn_outside == Family("CN=D,DC=F", {"Cn=D,Dc=F"})
\* Ends with the text of Dn_ou, yet is under another OU.
Dn_lookalike == Family("CN=E,OU=ZOU=X,DC=F", {"cn=e,ou=zou=x,dc=f"})
Dn_absent_ou == Family("OU=Q,DC=F", {"ou=q,dc=f"})

\* The DNs that are inserted and looked up.
DnFamilies == {Dn_ou, Dn_child, Dn_child_ou, Dn_grandchild, Dn_outside, Dn_lookalike}

\* The DNs get_ou_children is asked about.
OuFamilies == {Dn_domain, Dn_ou, Dn_child_ou, Dn_absent_ou}

DnKeys == UNION {f.variants : f \in DnFamilies}
OuKeys == UNION {f.variants : f \in OuFamilies}
DnIndexes == {0, 1}

\* The entries a cache may hold.
MaxDnEntries == 4

InitDnCache ==
    /\ pc = "cache"
    /\ dn_cache = <<>> /\ call = None /\ returned = None /\ archive = None
    /\ input = <<>> /\ acl_rest = 0 /\ acl = None /\ outcome = None
    /\ sid_string = None /\ sid_from_str = None
    /\ ace = None /\ object_type = "Unknown" /\ has_laps = FALSE /\ result = {}
    /\ sd = None /\ snapshot = None /\ aces = <<>>
    /\ ParseIdle

\* The variables SpecDnCache leaves alone.
dn_idle_vars == <<pc, archive, input, acl_rest, acl, outcome, sid_string, sid_from_str,
                  rights_vars, parse_vars>>

\* `dn_cache.insert(key, value)`.
DnInsert(key, value) ==
    /\ pc = "cache"
    /\ dn_cache' = DNCache_insert(dn_cache, key, value)
    /\ Cardinality(DOMAIN dn_cache') <= MaxDnEntries
    /\ call' = Some([op |-> "insert", key |-> key, value |-> value])
    /\ returned' = None
    /\ UNCHANGED dn_idle_vars

\* `dn_cache.get(&key)`.
DnGet(key) ==
    /\ pc = "cache"
    /\ call' = Some([op |-> "get", key |-> key])
    /\ returned' = Some(DNCache_get(dn_cache, key))
    /\ UNCHANGED <<dn_cache, dn_idle_vars>>

\* `dn_cache.get_ou_children(ou_dn)`.
DnGetOuChildren(ou_dn) ==
    /\ pc = "cache"
    /\ call' = Some([op |-> "get_ou_children", key |-> ou_dn])
    /\ \E children \in get_ou_children(dn_cache, ou_dn) : returned' = Some(children)
    /\ UNCHANGED <<dn_cache, dn_idle_vars>>

NextDnCache ==
    \/ \E key \in DnKeys, value \in DnIndexes : DnInsert(key, value)
    \/ \E key \in DnKeys : DnGet(key)
    \/ \E ou_dn \in OuKeys : DnGetOuChildren(ou_dn)

SpecDnCache == InitDnCache /\ [][NextDnCache]_vars

\* The spellings of the DN that key is a spelling of.
spellings(families, key) == (CHOOSE f \in families : key \in f.variants).variants

\* The upper-case spelling of the DN that key is a spelling of.
normalized(families, key) == (CHOOSE f \in families : key \in f.variants).upper

\* The last call was the one named.
called(op) == call # None /\ call.v.op = op

\* C17: every spelling of a DN gets the same answer from DNCache::get as
\* any other (as its upper-case spelling), and after an insert every spelling of the inserted DN gets
\* the inserted index from the one entry the cache holds for that DN.
C17_DnIndexCaseInsensitive ==
    /\ \A f \in DnFamilies : \A k \in f.variants :
           DNCache_get(dn_cache, k) = DNCache_get(dn_cache, f.upper)
    /\ called("insert") =>
           /\ \A k \in spellings(DnFamilies, call.v.key) :
                  DNCache_get(dn_cache, k) = Some(call.v.value)
           /\ Cardinality(DOMAIN dn_cache \cap spellings(DnFamilies, call.v.key)) = 1

\* A lower-case spelling was inserted last, over another index, in a cache
\* that holds other DNs too.
C17_Witness ==
    /\ called("insert")
    /\ call.v.key = "ou=x,dc=f" /\ call.v.value = 1
    /\ DNCache_get(dn_cache, "Ou=x,dc=F") = Some(1)
    /\ Cardinality(DOMAIN dn_cache) = MaxDnEntries

\* dn is exactly one RDN below ou_dn, both in upper case.
one_rdn_below(dn, ou_dn) ==
    /\ Len(split(dn, ",")) = Len(split(ou_dn, ",")) + 1
    /\ Tail(split(dn, ",")) = split(ou_dn, ",")

\* The indexes of the cached DNs exactly one RDN below ou_dn.
direct_children(cache, ou_dn) ==
    {cache[k] : k \in {k \in DOMAIN cache :
        one_rdn_below(normalized(DnFamilies, k), normalized(OuFamilies, ou_dn))}}

\* C20: get_ou_children returns the indexes of the cached DNs exactly one
\* RDN below ou_dn (every direct child, no deeper descendant, not the OU
\* itself, nothing outside it), each index once, whatever the letter case
\* of ou_dn.
C20_OuChildrenDirectOnly ==
    called("get_ou_children") =>
        /\ {returned.v[i] : i \in 1..Len(returned.v)} = direct_children(dn_cache, call.v.key)
        /\ Len(returned.v) = Cardinality(direct_children(dn_cache, call.v.key))
        /\ \A ou_dn \in spellings(OuFamilies, call.v.key) :
               get_ou_children(dn_cache, ou_dn) = get_ou_children(dn_cache, call.v.key)

\* The OU, asked for in lower case, has two children with different indexes
\* next to a grandchild and a DN under a look-alike OU.
C20_Witness ==
    /\ called("get_ou_children")
    /\ call.v.key = "ou=x,dc=f"
    /\ Len(returned.v) = 2
    /\ {Dn_child.upper, Dn_child_ou.upper, Dn_grandchild.upper, Dn_lookalike.upper}
           = DOMAIN dn_cache

\* Option::and_then.
and_then(opt, K(_)) == IF opt = None THEN None ELSE K(opt.v)

\* Option::map.
Option_map(opt, K(_)) == IF opt = None THEN None ELSE Some(K(opt.v))

(***************************************************************************)
(* cache.rs: Caches.  Every HashMap is a function from its keys; a Caches  *)
(* is the record of the struct's fields.  A snapshot here is [objects,     *)
(* classes, properties].                                                   *)
(***************************************************************************)

\* char::to_lowercase over the ASCII letters.
LowercaseOf ==
    [ch \in {SubSeq(UppercaseLetters, i, i) : i \in 1..26} |->
        LET i == CHOOSE i \in 1..26 : SubSeq(UppercaseLetters, i, i) = ch
        IN SubSeq(LowercaseLetters, i, i)]

\* str::to_lowercase.
RECURSIVE to_lowercase(_)
to_lowercase(str) ==
    IF str = "" THEN ""
    ELSE (IF SubSeq(str, 1, 1) \in DOMAIN LowercaseOf
          THEN LowercaseOf[SubSeq(str, 1, 1)] ELSE SubSeq(str, 1, 1))
         \o to_lowercase(SubSeq(str, 2, Len(str)))

\* Caches::new.
Caches_new ==
    [root_domain |-> None,
     domain_sid |-> None,
     sid_cache |-> <<>>,
     dn_cache |-> <<>>,
     computer_cache |-> <<>>,
     object_type_guid_cache |-> <<>>,
     class_cache |-> <<>>,
     domain_cache |-> <<>>,
     domain_controllers |-> <<>>,
     certificate_template_cache |-> <<>>]

\* Caches::get_attribute_value::<String>.
get_attribute_value_String(obj, attr_name) ==
    Let(get_first(obj, attr_name), LAMBDA value :
        IF value = None THEN None ELSE as_string(value.v))

\* Caches::get_attribute_value::<u32>.
get_attribute_value_u32(obj, attr_name) ==
    Let(get_first(obj, attr_name), LAMBDA value :
        IF value = None THEN None ELSE as_integer(value.v))

\* Caches::get_attribute_value::<Vec<String>>: `vec![s.clone()]` of the
\* first value.
get_attribute_value_Vec_String(obj, attr_name) ==
    Let(get_attribute_value_String(obj, attr_name), LAMBDA s :
        IF s = None THEN None ELSE Some(<<s.v>>))

\* Caches::get_object_sid.
get_object_sid(obj) ==
    Let(get_first(obj, "objectSid"), LAMBDA value :
        IF value = None \/ value.v.t # "OctetString" THEN None
        ELSE Let(SID_from_bytes(value.v.v), LAMBDA sid :
                 IF sid.ok THEN Some(sid.v) ELSE None))

\* Caches::get_object_dn, get_object_dnshostname, get_object_name.
get_object_dn(obj) == get_attribute_value_String(obj, "distinguishedName")
get_object_dnshostname(obj) == get_attribute_value_String(obj, "dNSHostName")
get_object_name(obj) == get_attribute_value_String(obj, "name")

SAM_MACHINE_ACCOUNT == 805306369

\* Caches::is_computer.
is_computer(obj) ==
    Let(get_attribute_value_u32(obj, "sAMAccountType"), LAMBDA account_type :
        account_type # None /\ account_type.v = SAM_MACHINE_ACCOUNT)

\* `lowercase_classes.contains(&class.to_string())`; FALSE without
\* objectClass.
has_lowercase_class(obj, class) ==
    Let(get_attribute_classes(obj), LAMBDA classes :
        classes # None /\ \E i \in 1..Len(classes.v) : to_lowercase(classes.v[i]) = class)

\* ComputerCache::insert.
ComputerCache_insert(cache, key, value) == HashMap_insert(cache, to_uppercase(key), value)

\* ComputerCache::get.
ComputerCache_get(cache, key) == HashMap_get(cache, to_uppercase(key))

\* ClassCache::insert and ClassCache::get.
ClassCache_insert(cache, key, value) == HashMap_insert(cache, key, value)
ClassCache_get(cache, key) == HashMap_get(cache, key)

\* DomainCache::insert_domain.
insert_domain(domains, dn, idx) == HashMap_insert(domains, dn, idx)

\* An insert_forest_domain that overwrites as insert_domain does.
insert_forest_domain_overwriting(domains, ncname, idx) ==
    HashMap_insert(domains, ncname, idx)

\* DomainCache::insert_forest_domain.
insert_forest_domain(domains, ncname, idx) ==
    IF ncname \in DOMAIN domains THEN domains ELSE HashMap_insert(domains, ncname, idx)

\* CertificateTemplateCache::insert.
CertificateTemplateCache_insert(templates, template, name) ==
    HashMap_insert(templates, template,
                   IF template \in DOMAIN templates THEN templates[template] \cup {name}
                   ELSE {name})

\* The two loops of build_object_type_guid_cache: classes, then properties
\* over the same indexes.
build_object_type_guid_cache(c, snap) ==
    [c EXCEPT !.object_type_guid_cache =
        [i \in 0..(Len(snap.classes) - 1) \cup 0..(Len(snap.properties) - 1) |->
            IF i < Len(snap.properties) THEN snap.properties[i + 1].schema_id_guid
            ELSE snap.classes[i + 1].schema_id_guid]]

\* `class.dn.split(',').next().and_then(|part| part.split('=').nth(1))`.
first_rdn_value(dn) ==
    Let(split(Head(split(dn, ",")), "="), LAMBDA parts :
        IF Len(parts) >= 2 THEN Some(parts[2]) ELSE None)

\* One turn of build_class_cache's loop.
cache_class(cache, index, class) ==
    Let(ClassCache_insert(ClassCache_insert(cache, class.class_name, index), class.dn, index),
        LAMBDA by_dn :
            Let(first_rdn_value(class.dn), LAMBDA cn :
                IF cn = None THEN by_dn ELSE ClassCache_insert(by_dn, cn.v, index)))

RECURSIVE class_cache_loop(_, _, _)
class_cache_loop(cache, classes, index) ==
    IF index >= Len(classes) THEN cache
    ELSE class_cache_loop(cache_class(cache, index, classes[index + 1]), classes, index + 1)

\* Caches::build_class_cache.
build_class_cache(c, snap) ==
    [c EXCEPT !.class_cache = class_cache_loop(@, snap.classes, 0)]

\* A SID cache that keeps the first object of a SID.
cache_sid_first_wins(c, idx, sid) ==
    IF sid = None \/ sid.v \in DOMAIN c.sid_cache THEN c
    ELSE [c EXCEPT !.sid_cache = HashMap_insert(@, sid.v, idx)]

\* build_object_caches, one object: the SID cache.
cache_sid(c, idx, sid) ==
    IF sid = None THEN c ELSE [c EXCEPT !.sid_cache = HashMap_insert(@, sid.v, idx)]

\* The DN cache.
cache_dn(c, idx, dn) ==
    IF dn = None THEN c ELSE [c EXCEPT !.dn_cache = DNCache_insert(@, dn.v, idx)]

\* The domain cache: root_domain, domain_sid, insert_domain.
cache_domain(c, idx, obj, sid, dn) ==
    IF ~has_lowercase_class(obj, "domain") THEN c
    ELSE [c EXCEPT !.root_domain = dn,
                   !.domain_sid = sid,
                   !.domain_cache = IF dn = None THEN @ ELSE insert_domain(@, dn.v, idx)]

\* The forest domain cache.
cache_forest_domain(c, idx, obj, system_flags, ncname) ==
    IF /\ has_lowercase_class(obj, "crossref")
       /\ system_flags # None /\ BitAnd(system_flags.v, 2) = 2
       /\ ncname # None
    THEN [c EXCEPT !.domain_cache = insert_forest_domain(@, ncname.v, idx)]
    ELSE c

\* `for template in templates { certificate_template_cache.insert(..) }`.
RECURSIVE insert_templates(_, _, _)
insert_templates(cache, templates, name) ==
    IF templates = <<>> THEN cache
    ELSE insert_templates(CertificateTemplateCache_insert(cache, Head(templates), name),
                          Tail(templates), name)

\* The certificate template cache.
cache_certificate_templates(c, obj, name, templates) ==
    IF has_lowercase_class(obj, "pkienrollmentservice") /\ name # None /\ templates # None
    THEN [c EXCEPT !.certificate_template_cache = insert_templates(@, templates.v, name.v)]
    ELSE c

\* The computer cache: dNSHostName, then name.
cache_computer(c, idx, obj, dnshostname, name) ==
    IF ~is_computer(obj) THEN c
    ELSE [c EXCEPT !.computer_cache =
            Let(IF dnshostname = None THEN @ ELSE ComputerCache_insert(@, dnshostname.v, idx),
                LAMBDA by_host :
                    IF name = None THEN by_host ELSE ComputerCache_insert(by_host, name.v, idx))]

SERVER_TRUST_ACCOUNT == 8192

\* domain_controllers.
cache_domain_controller(c, idx, uac) ==
    IF uac # None /\ BitAnd(uac.v, SERVER_TRUST_ACCOUNT) = SERVER_TRUST_ACCOUNT
    THEN [c EXCEPT !.domain_controllers = Append(@, idx)]
    ELSE c

\* One turn of build_object_caches' loop.
cache_object(c, idx, obj) ==
    cache_domain_controller(
        cache_computer(
            cache_certificate_templates(
                cache_forest_domain(
                    cache_domain(
                        cache_dn(cache_sid(c, idx, get_object_sid(obj)), idx, get_object_dn(obj)),
                        idx, obj, get_object_sid(obj), get_object_dn(obj)),
                    idx, obj, get_attribute_value_u32(obj, "systemFlags"),
                    get_attribute_value_String(obj, "nCName")),
                obj, get_attribute_value_String(obj, "name"),
                get_attribute_value_Vec_String(obj, "certificateTemplates")),
            idx, obj, get_object_dnshostname(obj), get_object_name(obj)),
        idx, get_attribute_value_u32(obj, "userAccountControl"))

RECURSIVE object_caches_loop(_, _, _)
object_caches_loop(c, objs, idx) ==
    IF idx >= Len(objs) THEN c
    ELSE object_caches_loop(cache_object(c, idx, objs[idx + 1]), objs, idx + 1)

\* Caches::build_object_caches.
build_object_caches(c, snap) == object_caches_loop(c, snap.objects, 0)

\* Caches::build_caches.
build_caches(c, snap) ==
    build_object_caches(build_class_cache(build_object_type_guid_cache(c, snap), snap), snap)

(***************************************************************************)
(* SpecCaches: Caches::new, build_caches on a snapshot, and lookups in the *)
(* caches built.  `snapshot` is the ADExplorerSnapshot [snapshot, caches]. *)
(***************************************************************************)

Strings(strs) == [i \in 1..Len(strs) |-> StringValue(strs[i])]

\* An object with the attributes of the record attrs.
ObjectWith(attrs) == [attributes |-> [n \in DOMAIN attrs |-> Attr(attrs[n])]]

Obj_domain ==
    ObjectWith([objectClass |-> Strings(<<"top", "domain", "domainDNS">>),
                distinguishedName |-> Strings(<<"DC=f">>),
                objectSid |-> <<OctetStringValue(SidBytes(1, 2, NtAuthority, <<21, 7>>))>>])
Obj_crossref ==
    ObjectWith([objectClass |-> Strings(<<"top", "crossRef">>),
                distinguishedName |-> Strings(<<"CN=F,CN=Partitions">>),
                systemFlags |-> <<IntegerValue(3)>>,
                nCName |-> Strings(<<"DC=f">>)])
Obj_ca_two_templates ==
    ObjectWith([objectClass |-> Strings(<<"top", "pKIEnrollmentService">>),
                distinguishedName |-> Strings(<<"CN=CA1,CN=Enrollment Services">>),
                name |-> Strings(<<"CA1">>),
                certificateTemplates |-> Strings(<<"User", "Machine">>)])
Obj_ca_one_template ==
    ObjectWith([objectClass |-> Strings(<<"top", "pKIEnrollmentService">>),
                name |-> Strings(<<"CA2">>),
                certificateTemplates |-> Strings(<<"User">>)])
Obj_ca_unnamed ==
    ObjectWith([objectClass |-> Strings(<<"top", "pKIEnrollmentService">>),
                certificateTemplates |-> Strings(<<"WebServer">>)])
Obj_computer ==
    ObjectWith([objectClass |-> Strings(<<"top", "user", "computer">>),
                distinguishedName |-> Strings(<<"CN=pc1,DC=f">>),
                objectSid |-> <<OctetStringValue(SidBytes(1, 3, NtAuthority, <<21, 7, 1104>>))>>,
                sAMAccountType |-> <<IntegerValue(SAM_MACHINE_ACCOUNT)>>,
                dNSHostName |-> Strings(<<"pc1.f">>),
                name |-> Strings(<<"PC1">>),
                userAccountControl |-> <<IntegerValue(4096)>>])
Obj_domain_controller ==
    ObjectWith([objectClass |-> Strings(<<"top", "user", "computer">>),
                distinguishedName |-> Strings(<<"CN=dc1,OU=Domain Controllers,DC=f">>),
                sAMAccountType |-> <<IntegerValue(SAM_MACHINE_ACCOUNT)>>,
                name |-> Strings(<<"DC1">>),
                userAccountControl |-> <<IntegerValue(532480)>>])
Obj_user ==
    ObjectWith([objectClass |-> Strings(<<"top", "person", "user">>),
                distinguishedName |-> Strings(<<"CN=u,DC=f">>),
                objectSid |-> <<OctetStringValue(SidBytes(1, 3, NtAuthority, <<21, 7, 500>>))>>,
                sAMAccountType |-> <<IntegerValue(805306368)>>,
                userAccountControl |-> <<IntegerValue(512)>>])
Obj_bare == [attributes |-> <<>>]

\* A crossRef without bit 2 in systemFlags.
Obj_crossref_unflagged ==
    ObjectWith([objectClass |-> Strings(<<"top", "crossRef">>),
                distinguishedName |-> Strings(<<"CN=G,CN=Partitions">>),
                systemFlags |-> <<IntegerValue(1)>>,
                nCName |-> Strings(<<"DC=g">>)])
\* An object with the SID of Obj_user and its DN in another letter case.
Obj_user_other_case ==
    ObjectWith([objectClass |-> Strings(<<"top", "person", "user">>),
                distinguishedName |-> Strings(<<"cn=U,dc=F">>),
                objectSid |-> <<OctetStringValue(SidBytes(1, 3, NtAuthority, <<21, 7, 500>>))>>,
                userAccountControl |-> <<IntegerValue(514)>>])

CacheObjects ==
    {Obj_domain, Obj_crossref, Obj_crossref_unflagged, Obj_ca_two_templates,
     Obj_ca_one_template, Obj_ca_unnamed, Obj_computer, Obj_domain_controller,
     Obj_user, Obj_user_other_case, Obj_bare}

ClassRecord(class_name, dn, wire) ==
    [class_name |-> class_name, dn |-> dn, schema_id_guid |-> parse_guid(wire).v]

Class_user == ClassRecord("user", "CN=User,CN=Schema", Wire_WriteMember)
Class_computer == ClassRecord("computer", "CN=Computer,CN=Schema", Wire_WriteSPN)
\* A dn without "=".
Class_top == ClassRecord("top", "Top", Wire_AllGuid)

ClassLists ==
    {<<>>, <<Class_user>>, <<Class_user, Class_computer>>, <<Class_top, Class_user>>}

CacheProperties == <<[prop_name |-> "cn", schema_id_guid |-> parse_guid(Wire_Enroll).v]>>

\* The keys class_cache is asked for.
ClassKeys ==
    {"user", "User", "USER", "CN=User,CN=Schema", "cn=user,cn=schema",
     "computer", "COMPUTER", "Top", "group"}

\* The objects of a snapshot.
MaxCacheObjects == 2

CacheSnapshots ==
    {[objects |-> objs, classes |-> classes, properties |-> CacheProperties] :
        objs \in UNION {[1..n -> CacheObjects] : n \in 0..MaxCacheObjects},
        classes \in ClassLists}

InitCaches ==
    /\ pc = "new"
    /\ \E snap \in CacheSnapshots : snapshot = [snapshot |-> snap, caches |-> Caches_new]
    /\ dn_cache = <<>> /\ call = None /\ returned = None /\ archive = None
    /\ input = <<>> /\ acl_rest = 0 /\ acl = None /\ outcome = None
    /\ sid_string = None /\ sid_from_str = None
    /\ ace = None /\ object_type = "Unknown" /\ has_laps = FALSE /\ result = {}
    /\ sd = None /\ aces = <<>>
    /\ ParseIdle

\* The variables SpecCaches leaves alone.
caches_idle_vars ==
    <<input, acl_rest, acl, outcome, sid_string, sid_from_str, dn_cache, archive,
      ace, object_type, has_laps, result, sd, aces, parse_vars>>

\* `caches.build_caches(&snapshot)`.
BuildCaches ==
    /\ pc = "new"
    /\ snapshot' = [snapshot EXCEPT !.caches = build_caches(@, snapshot.snapshot)]
    /\ pc' = "built"
    /\ UNCHANGED <<call, returned, caches_idle_vars>>

\* `caches.class_cache.get(&key)`.
ClassCacheGet(key) ==
    /\ pc = "built"
    /\ call' = Some([op |-> "class_cache.get", key |-> key])
    /\ returned' = Some(ClassCache_get(snapshot.caches.class_cache, key))
    /\ UNCHANGED <<pc, snapshot, caches_idle_vars>>

\* ADExplorerSnapshot::get_dn.
get_dn(snap, dn) ==
    and_then(DNCache_get(snap.caches.dn_cache, dn),
             LAMBDA dn_index : Vec_get(snap.snapshot.objects, dn_index))

\* ADExplorerSnapshot::get_computer.
get_computer(snap, computer) ==
    and_then(ComputerCache_get(snap.caches.computer_cache, computer),
             LAMBDA computer_index : Vec_get(snap.snapshot.objects, computer_index))

\* ADExplorerSnapshot::get_root_domain.
get_root_domain(snap) ==
    and_then(snap.caches.root_domain, LAMBDA root_domain_dn : get_dn(snap, root_domain_dn))

\* The keys the lookups are given.
SidKeys == {SID_from_bytes(SidBytes(1, 3, NtAuthority, <<21, 7, 500>>)).v, SidC}
SnapshotDnKeys == {"CN=u,DC=f", "CN=none"}
ComputerKeys == {"Pc1", "pc2"}
SnapshotOuKeys == {"dc=F"}

\* `snapshot.get_sid(&sid)`.
GetSid(sid) ==
    /\ pc = "built"
    /\ call' = Some([op |-> "get_sid", key |-> sid])
    /\ returned' = Some(get_sid(snapshot, sid))
    /\ UNCHANGED <<pc, snapshot, caches_idle_vars>>

\* `snapshot.get_dn(dn)`.
GetDn(dn) ==
    /\ pc = "built"
    /\ call' = Some([op |-> "get_dn", key |-> dn])
    /\ returned' = Some(get_dn(snapshot, dn))
    /\ UNCHANGED <<pc, snapshot, caches_idle_vars>>

\* `snapshot.get_computer(computer)`.
GetComputer(computer) ==
    /\ pc = "built"
    /\ call' = Some([op |-> "get_computer", key |-> computer])
    /\ returned' = Some(get_computer(snapshot, computer))
    /\ UNCHANGED <<pc, snapshot, caches_idle_vars>>

\* `snapshot.get_root_domain()`.
GetRootDomain ==
    /\ pc = "built"
    /\ call' = Some([op |-> "get_root_domain", key |-> ""])
    /\ returned' = Some(get_root_domain(snapshot))
    /\ UNCHANGED <<pc, snapshot, caches_idle_vars>>

\* `snapshot.caches.dn_cache.get_ou_children(ou_dn)`.
GetOuChildren(ou_dn) ==
    /\ pc = "built"
    /\ call' = Some([op |-> "get_ou_children", key |-> ou_dn])
    /\ \E children \in get_ou_children(snapshot.caches.dn_cache, ou_dn) :
           returned' = Some(children)
    /\ UNCHANGED <<pc, snapshot, caches_idle_vars>>

\* The Caches a caller may hand to ADExplorerSnapshot::build_caches: new ones,
\* and ones built on another snapshot.
ReplacementCaches ==
    {Caches_new,
     build_caches(Caches_new, [objects |-> <<Obj_user>>, classes |-> <<>>,
                               properties |-> <<>>])}

\* `snapshot.build_caches(caches)`: `self.caches = caches`.
ReplaceCaches(caches) ==
    /\ pc = "built"
    /\ snapshot' = [snapshot EXCEPT !.caches = caches]
    /\ pc' = "replaced"
    /\ call' = Some([op |-> "build_caches", key |-> ""])
    /\ returned' = None
    /\ UNCHANGED caches_idle_vars

NextCaches ==
    \/ BuildCaches
    \/ \E key \in ClassKeys : ClassCacheGet(key)
    \/ \E sid \in SidKeys : GetSid(sid)
    \/ \E dn \in SnapshotDnKeys : GetDn(dn)
    \/ \E computer \in ComputerKeys : GetComputer(computer)
    \/ GetRootDomain
    \/ \E ou_dn \in SnapshotOuKeys : GetOuChildren(ou_dn)
    \/ \E caches \in ReplacementCaches : ReplaceCaches(caches)

SpecCaches == InitCaches /\ [][NextCaches]_vars

\* The keys a class is stored under: class_name, dn, and the value of the
\* first RDN of dn.
class_keys(class) ==
    {class.class_name, class.dn}
        \cup (IF first_rdn_value(class.dn) = None THEN {} ELSE {first_rdn_value(class.dn).v})

\* Two strings differ in letter case at most.
same_ignoring_case(s, t) == to_uppercase(s) = to_uppercase(t)

\* C18: after build_class_cache a lookup by any letter-case variant of a
\* class's class_name, dn or first RDN value returns that class's index.
C18_ClassIndexCaseInsensitive ==
    called("class_cache.get") =>
        \A i \in 1..Len(snapshot.snapshot.classes) :
            (\E k \in class_keys(snapshot.snapshot.classes[i]) :
                same_ignoring_case(k, call.v.key))
            => returned.v = Some(i - 1)

\* The String values of an attribute, all of them.
all_strings(obj, attr_name) ==
    IF get(obj, attr_name) = None THEN <<>> ELSE filter_map_as_string(get(obj, attr_name).v)

\* C19: after build_caches, for every pKIEnrollmentService object with a
\* name and every value t of its certificateTemplates, the set stored under
\* t holds the object's name.
C19_CertificateTemplatesComplete ==
    pc = "built" =>
        \A i \in 1..Len(snapshot.snapshot.objects) :
            LET obj == snapshot.snapshot.objects[i] IN
            (has_lowercase_class(obj, "pkienrollmentservice") /\ get_object_name(obj) # None)
            => \A j \in 1..Len(all_strings(obj, "certificateTemplates")) :
                   /\ all_strings(obj, "certificateTemplates")[j]
                          \in DOMAIN snapshot.caches.certificate_template_cache
                   /\ get_object_name(obj).v
                          \in snapshot.caches.certificate_template_cache[
                                  all_strings(obj, "certificateTemplates")[j]]

(***************************************************************************)
(* Further claims about Aces::rights, checked under SpecRights.            *)
(***************************************************************************)
\* The ACE carries an object type that is not the all-zero GUID.
HasSpecificObjectType(a) ==
    \E w \in GuidWire \ {Wire_AllGuid} : HasObjectType(a, w)

\* C25: for an allow ACE whose mask has GENERIC_ALL with WRITE_DACL and/or
\* WRITE_OWNER and whose object type is a specific non-zero GUID, "GenericAll"
\* is not emitted and the later rules still run: the result has "WriteDacl"
\* when WRITE_DACL is set and "WriteOwner" when WRITE_OWNER is set.
C25_GenericAllShortCircuitsOnlyWhenEmitting ==
    (/\ pc = "done"
     /\ ace.kind \in AllowObjectKinds
     /\ has_flag(ace.mask, GENERIC_ALL)
     /\ has_flag(ace.mask, WRITE_DACL) \/ has_flag(ace.mask, WRITE_OWNER)
     /\ HasSpecificObjectType(ace))
    => /\ "GenericAll" \notin result
       /\ has_flag(ace.mask, WRITE_DACL) => "WriteDacl" \in result
       /\ has_flag(ace.mask, WRITE_OWNER) => "WriteOwner" \in result

(***************************************************************************)
(* Further claims about Aces::from_security_descriptor, under SpecAces.    *)
(***************************************************************************)
\* The ACE is one the DACL loop pushes rows for: not a deny ACE, and its
\* trustee is a key of sid_cache.
PushesRows(a) ==
    a.kind \notin DenyKinds /\ a.sid \in DOMAIN snapshot.caches.sid_cache

\* The rows are, ACE by ACE in DACL order, one row per right of each ACE that
\* pushes rows, all with that ACE's trustee, the trustee object's type and the
\* ACE's INHERITED_ACE flag.
RECURSIVE RowsByAce(_, _)
RowsByAce(rows, as) ==
    IF as = <<>> THEN rows = <<>>
    ELSE LET a == Head(as)
             rs == rights(a, object_type, has_laps)
             n == IF PushesRows(a) THEN Cardinality(rs) ELSE 0
         IN  /\ Len(rows) >= n
             /\ \A i \in 1..n :
                  /\ rows[i].principal_sid = SID_to_string(a.sid)
                  /\ rows[i].principal_type
                       = type_string(snapshot.snapshot.objects[
                                       snapshot.caches.sid_cache[a.sid] + 1])
                  /\ rows[i].is_inherited = (BitAnd(a.ace_flags, 16) # 0)
             /\ {rows[i].right_name : i \in 1..n} = (IF n = 0 THEN {} ELSE rs)
             /\ RowsByAce(SubSeq(rows, n + 1, Len(rows)), Tail(as))

\* The rows after the owner row.
DaclRowsOf(rows) ==
    SelectSeq(rows, LAMBDA r : r.right_name # "Owns")

\* C27: every DACL-derived row has a PrincipalSID that is a key of sid_index; an
\* allow ACE whose trustee is not in sid_index contributes no row; and the rows
\* of one ACE carry the same PrincipalSID, PrincipalType and IsInherited, the
\* last being the ACE's header flag 0x10.
C27_DaclRowsOfKnownTrustees ==
    pc = "done"
    => /\ \A i \in 1..Len(aces) :
            \E k \in DOMAIN snapshot.caches.sid_cache :
                aces[i].principal_sid = SID_to_string(k)
       /\ RowsByAce(DaclRowsOf(aces), AcesOf(sd))

\* C27 witness: an allow ACE with GENERIC_ALL for S-1-5-18, which no object has,
\* followed by an inherited allow ACE with WRITE_DACL | WRITE_OWNER for
\* S-1-5-32-544: two rows, both for S-1-5-32-544, Group, inherited.
C27_Witness ==
    /\ pc = "done"
    /\ sd.owner_sid = None
    /\ Len(AcesOf(sd)) = 2
    /\ AcesOf(sd)[1].kind = "AccessAllowed" /\ AcesOf(sd)[1].sid = SidC
    /\ AcesOf(sd)[1].mask = GENERIC_ALL
    /\ AcesOf(sd)[2].kind = "AccessAllowed" /\ AcesOf(sd)[2].sid = SidB
    /\ Len(aces) = 2
    /\ \A i \in 1..2 : /\ aces[i].principal_sid = "S-1-5-32-544"
                       /\ aces[i].principal_type = "Group"
                       /\ aces[i].is_inherited
    /\ {aces[1].right_name, aces[2].right_name} = {"WriteDacl", "WriteOwner"}

(***************************************************************************)
(* parser.rs: Object::get_object_identifier; common.rs: get_aces.          *)
(***************************************************************************)
\* AttributeValue::as_sid.
as_sid(value) ==
    IF value.t # "OctetString" THEN None
    ELSE Let(SID_from_bytes(value.v), LAMBDA sid :
             IF sid.ok THEN Some(sid.v) ELSE None)

\* AttributeValue::as_guid: GUID::from_bytes(..).ok().
as_guid(value) ==
    IF value.t # "OctetString" THEN None ELSE parse_guid(value.v)

\* Object::get_object_identifier on an object of type ot.
get_object_identifier_of(obj, ot) ==
    CASE ot \in {"Computer", "User", "Group"} ->
             Option_map(and_then(get_first(obj, "objectSid"), as_sid), SID_to_string)
      [] ot \in {"OU", "Container", "GPO"} ->
             Option_map(and_then(get_first(obj, "objectGUID"), as_guid), GUID_to_string)
      [] OTHER -> None

\* Object::get_object_identifier.
get_object_identifier(obj) == get_object_identifier_of(obj, get_type(obj))

\* AttributeValue::as_nt_security_descriptor: `SDDL::from_bytes(&o).ok()`,
\* decoded being what SDDL::from_bytes makes of the value's bytes (None for Err).
as_nt_security_descriptor(value, decoded) ==
    IF value.t = "NTSecurityDescriptor" THEN decoded ELSE None

\* The ObjectType of the target as User whenever type_string says "User".
get_type_as_type_string(obj) ==
    IF get_type(obj) = "UserDisabled" THEN "User" ELSE get_type(obj)

\* The ObjectType get_aces hands to the translator: `obj.get_type()`.
get_aces_object_type(obj) == get_type(obj)

\* get_aces: the Vec<Aces> it may return.
get_aces(obj, snap, decoded) ==
    Let(get(obj, "ms-Mcs-AdmPwdExpirationTime") # None, LAMBDA laps :
    Let(get_aces_object_type(obj), LAMBDA ot :
    Let(and_then(get_first(obj, "nTSecurityDescriptor"),
                 LAMBDA value : as_nt_security_descriptor(value, decoded)),
        LAMBDA descriptor :
            IF descriptor = None THEN {<<>>}
            ELSE from_security_descriptor(descriptor.v, snap, ot, laps))))

(***************************************************************************)
(* The objects the accessors are applied to.                               *)
(***************************************************************************)
MaxClasses == 2

\* The class names Object::get_type tests, and one it does not.
ClassNames == {"top", "user", "computer", "group", "domain", "organizationalUnit",
               "container", "groupPolicyContainer"}

\* objectClass: absent, or up to MaxClasses names in any order.
ClassValues ==
    {None} \cup {Some(c) : c \in UNION {[1..n -> ClassNames] : n \in 0..MaxClasses}}

\* userAccountControl: absent, an enabled account, a disabled one, and a value
\* that is not an Integer.
UacValues == {None, Some(IntegerValue(512)), Some(IntegerValue(514)),
              Some(UTCTimeValue(514))}

\* The other attributes an object may carry.
ExtraAttributes ==
    {{}, {"objectSid", "objectGUID"}, {"nTSecurityDescriptor"},
     {"objectSid", "objectGUID", "nTSecurityDescriptor", "ms-Mcs-AdmPwdExpirationTime"}}

TargetObject(classes, uac, gpc, extras) ==
    [attributes |->
        [n \in (IF classes = None THEN {} ELSE {"objectClass"})
               \cup (IF uac = None THEN {} ELSE {"userAccountControl"})
               \cup (IF gpc THEN {"gPCFileSysPath"} ELSE {})
               \cup extras |->
            CASE n = "objectClass" -> Attr(Strings(classes.v))
              [] n = "userAccountControl" -> Attr(<<uac.v>>)
              [] n = "gPCFileSysPath" -> Attr(<<StringValue("\\\\f\\sysvol")>>)
              [] n = "objectSid" ->
                     Attr(<<OctetStringValue(SidBytes(1, 2, NtAuthority, <<21, 1104>>))>>)
              [] n = "objectGUID" -> Attr(<<OctetStringValue(Wire_Unknown)>>)
              [] n = "nTSecurityDescriptor" -> Attr(<<NTSecurityDescriptorValue(<<1>>)>>)
              [] OTHER -> Attr(<<LargeIntegerValue(<<1, 0, 0, 0, 0, 0, 0, 0>>)>>)]]

TargetObjects ==
    {TargetObject(c, u, g, e) :
        c \in ClassValues, u \in UacValues, g \in BOOLEAN, e \in ExtraAttributes}

\* The masks of the target's ACEs: GENERIC_ALL, and every other flag the
\* translator tests.
AllButGenericAll ==
    GENERIC_WRITE + WRITE_OWNER + WRITE_DACL + ADS_RIGHT_DS_CONTROL_ACCESS
        + ADS_RIGHT_DS_WRITE_PROP + ADS_RIGHT_DS_SELF

\* What SDDL::from_bytes may make of the target's nTSecurityDescriptor: an
\* error, or a descriptor with one allow ACE for S-1-5-21-1104.
DecodedDescriptors ==
    {None}
    \cup {Some([owner_sid |-> Some(SidA), dacl |-> Some([aces |-> <<a>>])]) :
            a \in {PlainAce("AccessAllowed", 0, GENERIC_ALL, SidA),
                   PlainAce("AccessAllowed", 0, AllButGenericAll, SidA),
                   ObjectAce("AccessAllowedObject", 0, AllButGenericAll,
                             Some(Wire_WriteSPN), SidA),
                   ObjectAce("AccessAllowedObject", 0, AllButGenericAll,
                             Some(Wire_AllGuid), SidA)}}

(***************************************************************************)
(* SpecObject: one call of get_type, get_object_identifier or get_aces on  *)
(* an object.                                                              *)
(***************************************************************************)
InitObject ==
    /\ pc = "call"
    /\ input \in TargetObjects
    /\ snapshot = AcesSnapshot
    /\ sd = None /\ object_type = "Unknown" /\ has_laps = FALSE /\ aces = <<>>
    /\ ace = None /\ result = {}
    /\ acl_rest = 0 /\ acl = None /\ outcome = None
    /\ sid_string = None /\ sid_from_str = None
    /\ dn_cache = <<>> /\ call = None /\ returned = None /\ archive = None
    /\ ParseIdle

object_idle_vars ==
    <<input, snapshot, ace, result, acl_rest, acl, outcome, sid_string,
      sid_from_str, dn_cache, archive, parse_vars>>

\* `obj.get_type()`.
GetType ==
    /\ pc = "call"
    /\ call' = Some("get_type")
    /\ returned' = Some(get_type(input))
    /\ pc' = "done"
    /\ UNCHANGED <<sd, object_type, has_laps, aces, object_idle_vars>>

\* `obj.get_object_identifier()`.
GetObjectIdentifier ==
    /\ pc = "call"
    /\ call' = Some("get_object_identifier")
    /\ returned' = Some(get_object_identifier(input))
    /\ pc' = "done"
    /\ UNCHANGED <<sd, object_type, has_laps, aces, object_idle_vars>>

\* `get_aces(obj, snapshot)`, SDDL::from_bytes yielding decoded.
GetAces(decoded) ==
    /\ pc = "call"
    /\ call' = Some("get_aces")
    /\ sd' = decoded
    /\ has_laps' = (get(input, "ms-Mcs-AdmPwdExpirationTime") # None)
    /\ object_type' = get_aces_object_type(input)
    /\ aces' \in get_aces(input, snapshot, decoded)
    /\ returned' = None
    /\ pc' = "done"
    /\ UNCHANGED object_idle_vars

NextObject ==
    \/ GetType
    \/ GetObjectIdentifier
    \/ \E decoded \in DecodedDescriptors : GetAces(decoded)

SpecObject == InitObject /\ [][NextObject]_vars

(***************************************************************************)
(* Claims about the object accessors, checked under SpecObject.            *)
(***************************************************************************)
\* The class names of the object, as objectClass lists them.
ClassesOf(obj) ==
    IF "objectClass" \in DOMAIN obj.attributes
    THEN [i \in 1..Len(obj.attributes["objectClass"].values) |->
             obj.attributes["objectClass"].values[i].v]
    ELSE <<>>

HasClass(obj, class) == \E i \in 1..Len(ClassesOf(obj)) : ClassesOf(obj)[i] = class

\* userAccountControl is an Integer with bit 0x2 set.
AccountDisabled(obj) ==
    /\ "userAccountControl" \in DOMAIN obj.attributes
    /\ obj.attributes["userAccountControl"].values[1].t = "Integer"
    /\ (obj.attributes["userAccountControl"].values[1].v \div 2) % 2 = 1

\* The type of the first class name get_type knows, in declared order.
RECURSIVE FirstKnownClass(_)
FirstKnownClass(classes) ==
    IF classes = <<>> THEN "Unknown"
    ELSE CASE Head(classes) = "computer" -> "Computer"
           [] Head(classes) = "group" -> "Group"
           [] Head(classes) = "domain" -> "Domain"
           [] Head(classes) = "organizationalUnit" -> "OU"
           [] Head(classes) = "container" -> "Container"
           [] Head(classes) = "groupPolicyContainer" -> "GPO"
           [] OTHER -> FirstKnownClass(Tail(classes))

\* C21: get_type is GPO for an object with gPCFileSysPath; otherwise, for an
\* object with class user, UserDisabled when userAccountControl has bit 0x2 and
\* User in every other case; and only without class user the type of the first
\* of computer, group, domain, organizationalUnit, container,
\* groupPolicyContainer in declared class order, else Unknown.
C21_GetTypeDecisionOrder ==
    (pc = "done" /\ call = Some("get_type"))
    => returned
         = Some(IF "gPCFileSysPath" \in DOMAIN input.attributes THEN "GPO"
                ELSE IF HasClass(input, "user")
                     THEN IF AccountDisabled(input) THEN "UserDisabled" ELSE "User"
                     ELSE FirstKnownClass(ClassesOf(input)))

\* The rights a DACL row may name.
DaclRightsOf(rows) ==
    {rows[i].right_name : i \in {j \in 1..Len(rows) : rows[j].right_name # "Owns"}}

\* The object is classified UserDisabled: class user, userAccountControl with
\* bit 0x2, no gPCFileSysPath.
IsDisabledUser(obj) ==
    /\ HasClass(obj, "user")
    /\ AccountDisabled(obj)
    /\ "gPCFileSysPath" \notin DOMAIN obj.attributes

\* C28: for a target classified UserDisabled, get_aces hands
\* ObjectType::UserDisabled to the translator and the DACL rows name only
\* GenericAll, WriteDacl and WriteOwner; and get_object_identifier returns None.
C28_DisabledUserTarget ==
    (pc = "done" /\ IsDisabledUser(input))
    => /\ call = Some("get_aces")
          => /\ object_type = "UserDisabled"
             /\ DaclRightsOf(aces) \subseteq {"GenericAll", "WriteDacl", "WriteOwner"}
       /\ call = Some("get_object_identifier") => returned = Some(None)

\* C28 witness: a disabled user with an objectSid whose descriptor grants
\* S-1-5-21-1104 every right but GENERIC_ALL: the rows are Owns, WriteDacl and
\* WriteOwner.
C28_Witness ==
    /\ pc = "done" /\ call = Some("get_aces")
    /\ IsDisabledUser(input)
    /\ "objectSid" \in DOMAIN input.attributes
    /\ sd # None
    /\ sd.v.dacl.v.aces[1].kind = "AccessAllowed"
    /\ sd.v.dacl.v.aces[1].mask = AllButGenericAll
    /\ Len(aces) = 3
    /\ DaclRightsOf(aces) = {"WriteDacl", "WriteOwner"}

(***************************************************************************)
(* Claims about the snapshot's indexes, checked under SpecCaches.          *)
(***************************************************************************)
\* C22: once the caches are built, no operation of ADExplorerSnapshot changes
\* the parse outputs or any index: every step from the built snapshot leaves
\* `snapshot` (the Snapshot and its Caches) as it was.
C22_IndexesImmutableOnceBuilt ==
    [][pc = "built" => snapshot' = snapshot]_vars

\* The indexes (from 0) of the objects that satisfy P.
ObjectIndexes(P(_)) ==
    {i - 1 : i \in {j \in 1..Len(snapshot.snapshot.objects) :
                        P(snapshot.snapshot.objects[j])}}

SetMax(S) == CHOOSE x \in S : \A y \in S : y <= x
SetMin(S) == CHOOSE x \in S : \A y \in S : x <= y

\* Every value of the map is an index below n.
ValuesBelow(map, n) == \A k \in DOMAIN map : map[k] \in 0..(n - 1)

\* C29: when build_caches returns, every value of sid_cache, dn_cache, computer_cache,
\* domain_cache and domain_controllers is an index below the number of
\* objects and every value of class_cache one below the number of classes;
\* get_sid, get_dn and get_computer return an object whenever the key is
\* present; domain_controllers is strictly increasing; and for a SID or a
\* case-normalized DN that several objects have, the index holds the last.
C29_IndexReferentialIntegrity ==
    LET c == snapshot.caches
        n == Len(snapshot.snapshot.objects)
    IN  /\ (pc = "built" /\ call = None) =>
               /\ ValuesBelow(c.sid_cache, n) /\ ValuesBelow(c.dn_cache, n)
               /\ ValuesBelow(c.computer_cache, n) /\ ValuesBelow(c.domain_cache, n)
               /\ ValuesBelow(c.domain_controllers, n)
               /\ ValuesBelow(c.class_cache, Len(snapshot.snapshot.classes))
               /\ \A i, j \in 1..Len(c.domain_controllers) :
                      i < j => c.domain_controllers[i] < c.domain_controllers[j]
               /\ \A s \in DOMAIN c.sid_cache :
                      c.sid_cache[s]
                          = SetMax(ObjectIndexes(LAMBDA o : get_object_sid(o) = Some(s)))
               /\ \A k \in DOMAIN c.dn_cache :
                      c.dn_cache[k]
                          = SetMax(ObjectIndexes(LAMBDA o :
                                /\ get_object_dn(o) # None
                                /\ to_uppercase(get_object_dn(o).v) = k))
        /\ (pc = "built" /\ called("get_sid") /\ call.v.key \in DOMAIN c.sid_cache)
               => returned.v # None
        /\ (pc = "built" /\ called("get_dn")
              /\ to_uppercase(call.v.key) \in DOMAIN c.dn_cache)
               => returned.v # None
        /\ (pc = "built" /\ called("get_computer")
              /\ to_uppercase(call.v.key) \in DOMAIN c.computer_cache)
               => returned.v # None

\* C29 witness: two objects with one SID and DNs that differ in letter case
\* only: both indexes hold the second, and get_dn by the first object's
\* spelling returns the second object.
C29_Witness ==
    /\ pc = "built"
    /\ snapshot.snapshot.objects = <<Obj_user, Obj_user_other_case>>
    /\ DOMAIN snapshot.caches.dn_cache = {"CN=U,DC=F"}
    /\ snapshot.caches.dn_cache["CN=U,DC=F"] = 1
    /\ \A s \in DOMAIN snapshot.caches.sid_cache : snapshot.caches.sid_cache[s] = 1
    /\ called("get_dn") /\ call.v.key = "CN=u,DC=f"
    /\ returned.v = Some(Obj_user_other_case)

\* The object is of class domain with distinguishedName d.
IsDomainAt(obj, d) ==
    has_lowercase_class(obj, "domain") /\ get_object_dn(obj) = Some(d)

\* The object is of class crossRef with systemFlags & 2 != 0 and nCName d.
IsForestCrossRefTo(obj, d) ==
    /\ has_lowercase_class(obj, "crossref")
    /\ get_attribute_value_u32(obj, "systemFlags") # None
    /\ (get_attribute_value_u32(obj, "systemFlags").v \div 2) % 2 = 1
    /\ get_attribute_value_String(obj, "nCName") = Some(d)

\* The DNs and nCNames of the snapshot's objects.
DomainNames ==
    {n.v : n \in ({get_object_dn(snapshot.snapshot.objects[i]) :
                      i \in 1..Len(snapshot.snapshot.objects)}
                  \cup {get_attribute_value_String(snapshot.snapshot.objects[i], "nCName") :
                           i \in 1..Len(snapshot.snapshot.objects)})
                 \ {None}}

\* C30: when build_caches returns, the entry of domain_cache for d is the index of the domain object with
\* distinguishedName d (the last of them) whenever there is one, wherever the
\* crossRef objects with nCName d stand; without a domain object it is the
\* first crossRef with systemFlags & 2 != 0 and nCName d, later ones never
\* overwriting it; and nothing else has an entry, so a crossRef with
\* systemFlags & 2 = 0 inserts nothing.
C30_DomainCacheOrderIndependent ==
    (pc = "built" /\ call = None) =>
        \A d \in DomainNames \cup DOMAIN snapshot.caches.domain_cache :
            LET doms == ObjectIndexes(LAMBDA o : IsDomainAt(o, d))
                refs == ObjectIndexes(LAMBDA o : IsForestCrossRefTo(o, d))
            IN  IF doms # {}
                THEN /\ d \in DOMAIN snapshot.caches.domain_cache
                     /\ snapshot.caches.domain_cache[d] = SetMax(doms)
                ELSE IF refs # {}
                THEN /\ d \in DOMAIN snapshot.caches.domain_cache
                     /\ snapshot.caches.domain_cache[d] = SetMin(refs)
                ELSE d \notin DOMAIN snapshot.caches.domain_cache

\* C30 witness: the crossRef for DC=f before the domain object DC=f: the
\* entry is the domain object's index 1.
C30_Witness ==
    /\ pc = "built" /\ call = None
    /\ snapshot.snapshot.objects = <<Obj_crossref, Obj_domain>>
    /\ DOMAIN snapshot.caches.domain_cache = {"DC=f"}
    /\ snapshot.caches.domain_cache["DC=f"] = 1

(***************************************************************************)
(* ous.rs: Link::from_gplink, written with nom over &str.  A parser applied *)
(* to a string yields [ok |-> TRUE, rem |-> the input left, v |-> value] or *)
(* [ok |-> FALSE].                                                          *)
(***************************************************************************)
StrOk(left, v) == [ok |-> TRUE, rem |-> left, v |-> v]
StrErr == [ok |-> FALSE]

\* The string from its i-th character on.
StrFrom(str, i) == SubSeq(str, i, Len(str))

\* nom character::complete::char.
nom_char(ch, str) ==
    IF Len(str) >= 1 /\ SubSeq(str, 1, 1) = ch THEN StrOk(StrFrom(str, 2), ch)
    ELSE StrErr

\* nom bytes::complete::tag.
nom_tag(t, str) ==
    IF Len(str) >= Len(t) /\ SubSeq(str, 1, Len(t)) = t
    THEN StrOk(StrFrom(str, Len(t) + 1), t) ELSE StrErr

\* nom bytes::complete::tag_no_case.
nom_tag_no_case(t, str) ==
    IF Len(str) >= Len(t) /\ to_lowercase(SubSeq(str, 1, Len(t))) = to_lowercase(t)
    THEN StrOk(StrFrom(str, Len(t) + 1), SubSeq(str, 1, Len(t))) ELSE StrErr

\* The length of the longest prefix of str without the character ch.
RECURSIVE prefix_without(_, _, _)
prefix_without(str, ch, i) ==
    IF i > Len(str) \/ SubSeq(str, i, i) = ch THEN i - 1
    ELSE prefix_without(str, ch, i + 1)

\* nom bytes::complete::is_not of one character: the longest prefix without
\* it, an error when that prefix is empty.
nom_is_not(ch, str) ==
    Let(prefix_without(str, ch, 1), LAMBDA n :
        IF n = 0 THEN StrErr ELSE StrOk(StrFrom(str, n + 1), SubSeq(str, 1, n)))

\* `let (rem, x) = r?; K(x)` for the parsers over &str.
StrTry(r, K(_)) == IF r.ok THEN K(r) ELSE StrErr

\* Link::parse_guid without the to_uppercase.
Link_parse_guid_verbatim(str) ==
    StrTry(nom_char("{", str), LAMBDA open :
    StrTry(nom_is_not("}", open.rem), LAMBDA s :
    StrTry(nom_char("}", s.rem), LAMBDA close :
        StrOk(close.rem, s.v))))

\* Link::parse_guid: delimited(char('{'), is_not("}"), char('}')), upper-cased.
Link_parse_guid(str) ==
    StrTry(nom_char("{", str), LAMBDA open :
    StrTry(nom_is_not("}", open.rem), LAMBDA s :
    StrTry(nom_char("}", s.rem), LAMBDA close :
        StrOk(close.rem, to_uppercase(s.v)))))

\* alt((value(true, tag(";2")), value(false, opt(tag(";0"))))).
link_options(str) ==
    Let(nom_tag(";2", str), LAMBDA two :
        IF two.ok THEN StrOk(two.rem, TRUE)
        ELSE Let(nom_tag(";0", str), LAMBDA zero :
                 IF zero.ok THEN StrOk(zero.rem, FALSE) ELSE StrOk(str, FALSE)))

\* Link::parse_gplink_entry.
parse_gplink_entry(str) ==
    StrTry(nom_tag_no_case("LDAP://cn=", str), LAMBDA scheme :
    StrTry(Link_parse_guid(scheme.rem), LAMBDA guid :
    StrTry(nom_is_not(";", guid.rem), LAMBDA skipped :
    StrTry(link_options(skipped.rem), LAMBDA is_enforced :
        StrOk(is_enforced.rem, [guid |-> guid.v, is_enforced |-> is_enforced.v])))))

\* delimited(char('['), Self::parse_gplink_entry, char(']')).
bracketed_entry(str) ==
    StrTry(nom_char("[", str), LAMBDA open :
    StrTry(parse_gplink_entry(open.rem), LAMBDA entry :
    StrTry(nom_char("]", entry.rem), LAMBDA close :
        StrOk(close.rem, entry.v))))

\* Link::parse_gplink: nom::multi::many0, which stops at the first entry that
\* does not parse and fails when an entry consumes nothing.
RECURSIVE parse_gplink_from(_, _)
parse_gplink_from(str, links) ==
    Let(bracketed_entry(str), LAMBDA entry :
        IF ~entry.ok THEN StrOk(str, links)
        ELSE IF Len(entry.rem) = Len(str) THEN StrErr
        ELSE parse_gplink_from(entry.rem, Append(links, entry.v)))

parse_gplink(str) == parse_gplink_from(str, <<>>)

\* Link::from_gplink.
from_gplink(gplink) ==
    Let(parse_gplink(gplink), LAMBDA parsed_links :
        IF parsed_links.ok THEN parsed_links.v ELSE <<>>)

(***************************************************************************)
(* SpecGplink: one call of Link::from_gplink on a gPLink value made of     *)
(* entries.                                                                *)
(***************************************************************************)
MaxLinks == 2

\* The parts of an entry: the prefix in two letter cases, a GUID in lower and in
\* upper case (with its upper-case spelling), the rest of the DN, and the
\* options: 0, 2, and two that are not well-formed.
LinkEntries ==
    [scheme : {"LDAP://CN=", "ldap://cn="},
     guid : {[text |-> "6ac1786c-f9", upper |-> "6AC1786C-F9"],
             [text |-> "31B2F340", upper |-> "31B2F340"]},
     dn_rest : {",CN=Policies,DC=lab"},
     options : {";0", ";2", ";1", ""}]

entry_text(e) ==
    "[" \o e.scheme \o "{" \o e.guid.text \o "}" \o e.dn_rest \o e.options \o "]"

RECURSIVE concat_entries(_)
concat_entries(entries) ==
    IF entries = <<>> THEN ""
    ELSE entry_text(Head(entries)) \o concat_entries(Tail(entries))

InitGplink ==
    /\ pc = "call"
    /\ \E entries \in UNION {[1..n -> LinkEntries] : n \in 0..MaxLinks} :
           input = [entries |-> entries, gplink |-> concat_entries(entries)]
    /\ acl_rest = 0 /\ acl = None /\ outcome = None
    /\ sid_string = None /\ sid_from_str = None
    /\ dn_cache = <<>> /\ call = None /\ returned = None /\ archive = None
    /\ ace = None /\ object_type = "Unknown" /\ has_laps = FALSE /\ result = {}
    /\ sd = None /\ snapshot = None /\ aces = <<>>
    /\ ParseIdle

\* `Link::from_gplink(gplink)`.
FromGplink ==
    /\ pc = "call"
    /\ call' = Some("from_gplink")
    /\ returned' = Some(from_gplink(input.gplink))
    /\ pc' = "done"
    /\ UNCHANGED <<input, acl_rest, acl, outcome, sid_string, sid_from_str, dn_cache, archive,
                   rights_vars, parse_vars>>

NextGplink == FromGplink

SpecGplink == InitGplink /\ [][NextGplink]_vars

\* Every entry of the value ends in ;0 or ;2.
WellFormedEntries(entries) ==
    \A i \in 1..Len(entries) : entries[i].options \in {";0", ";2"}

\* C24: for a gPLink value that is the concatenation of n well-formed entries
\* "[LDAP://CN={guid},...;opt]" with opt 0 or 2, CN in either letter case,
\* from_gplink returns n links in entry order, each with the guid in upper
\* case and is_enforced true exactly for opt 2; for the empty string, no link.
C24_GplinkParsing ==
    (pc = "done" /\ WellFormedEntries(input.entries))
    => returned = Some([i \in 1..Len(input.entries) |->
                           [guid |-> input.entries[i].guid.upper,
                            is_enforced |-> input.entries[i].options = ";2"]])

\* C24 witness: a lower-case entry with ;0 followed by an upper-case one with
\* ;2 yields the two links, guids in upper case, enforced FALSE then TRUE.
C24_Witness ==
    /\ pc = "done"
    /\ input.gplink = "[ldap://cn={6ac1786c-f9},CN=Policies,DC=lab;0]"
                          \o "[LDAP://CN={31B2F340},CN=Policies,DC=lab;2]"
    /\ returned = Some(<<[guid |-> "6AC1786C-F9", is_enforced |-> FALSE],
                         [guid |-> "31B2F340", is_enforced |-> TRUE]>>)

(***************************************************************************)
(* parser.rs: AttributeValue::as_unix_timestamp.  An i64 does not fit the  *)
(* checker's integers: a natural number is held as its decimal digits,     *)
(* least significant first, in DecWidth places, and a signed value as      *)
(* [neg, mag].                                                             *)
(***************************************************************************)
\* 2^64, 2^63 and the FILETIME of 1970-01-01 (parser.rs:529), most
\* significant digit first.
Two64Digits == <<1, 8, 4, 4, 6, 7, 4, 4, 0, 7, 3, 7, 0, 9, 5, 5, 1, 6, 1, 6>>
Two63Digits == <<9, 2, 2, 3, 3, 7, 2, 0, 3, 6, 8, 5, 4, 7, 7, 5, 8, 0, 8>>
EpochDigits == <<1, 1, 6, 4, 4, 4, 7, 3, 6, 0, 0, 0, 0, 0, 0, 0, 0, 0>>

DecWidth == Len(Two64Digits) + 1

\* The natural number written with the digits msd.
NatOf(msd) ==
    [i \in 1..DecWidth |-> IF i <= Len(msd) THEN msd[Len(msd) + 1 - i] ELSE 0]

NatZero == NatOf(<<>>)
Two64 == NatOf(Two64Digits)
Two63 == NatOf(Two63Digits)
FILETIME_EPOCH == NatOf(EpochDigits)

\* a * m + c for a small m and c: one pass over the digits with a carry.
RECURSIVE nat_mul_add_from(_, _, _, _)
nat_mul_add_from(a, m, carry, i) ==
    IF i > DecWidth THEN <<>>
    ELSE <<(a[i] * m + carry) % 10>>
             \o nat_mul_add_from(a, m, (a[i] * m + carry) \div 10, i + 1)

nat_mul_add(a, m, c) == nat_mul_add_from(a, m, c, 1)

\* a + b.
RECURSIVE nat_add_from(_, _, _, _)
nat_add_from(a, b, carry, i) ==
    IF i > DecWidth THEN <<>>
    ELSE <<(a[i] + b[i] + carry) % 10>>
             \o nat_add_from(a, b, (a[i] + b[i] + carry) \div 10, i + 1)

nat_add(a, b) == nat_add_from(a, b, 0, 1)

\* a - b for a >= b.
RECURSIVE nat_sub_from(_, _, _, _)
nat_sub_from(a, b, borrow, i) ==
    IF i > DecWidth THEN <<>>
    ELSE <<(a[i] - b[i] - borrow + 10) % 10>>
             \o nat_sub_from(a, b, IF a[i] - b[i] - borrow < 0 THEN 1 ELSE 0, i + 1)

nat_sub(a, b) == nat_sub_from(a, b, 0, 1)

\* a < b.
nat_lt(a, b) ==
    \E i \in 1..DecWidth :
        a[i] < b[i] /\ \A j \in (i + 1)..DecWidth : a[j] = b[j]

\* a divided by 10^k, the remainder dropped.
nat_div_pow10(a, k) ==
    [i \in 1..DecWidth |-> IF i + k <= DecWidth THEN a[i + k] ELSE 0]

\* u64::from_le_bytes as a natural number.
RECURSIVE nat_from_le_bytes(_)
nat_from_le_bytes(bytes) ==
    IF bytes = <<>> THEN NatZero
    ELSE nat_mul_add(nat_from_le_bytes(Tail(bytes)), 256, Head(bytes))

\* A signed value; zero is not negative.
Signed(neg, mag) == [neg |-> neg /\ mag # NatZero, mag |-> mag]

\* i64::from_le_bytes: two's complement.
i64_from_le_bytes(bytes) ==
    Let(nat_from_le_bytes(bytes), LAMBDA u :
        IF nat_lt(u, Two63) THEN Signed(FALSE, u) ELSE Signed(TRUE, nat_sub(Two64, u)))

\* x - c for a natural number c, as an integer of any size.
signed_sub_nat(x, c) ==
    IF x.neg THEN Signed(TRUE, nat_add(x.mag, c))
    ELSE IF nat_lt(x.mag, c) THEN Signed(TRUE, nat_sub(c, x.mag))
    ELSE Signed(FALSE, nat_sub(x.mag, c))

\* i64 `/` by 10^k: the quotient truncated toward zero.
signed_div_pow10(x, k) == Signed(x.neg, nat_div_pow10(x.mag, k))

\* The value is below i64::MIN.
below_i64_MIN(x) == x.neg /\ nat_lt(Two63, x.mag)

\* The i64 a value below i64::MIN wraps to: the value plus 2^64.
wrapping(x) == Signed(FALSE, nat_sub(Two64, x.mag))

\* The decimal places `/ 10000000` drops (parser.rs:529).
TicksPerSecondPlaces == 7

\* What a call yields: a value, or a panic.
Returns(v) == [panicked |-> FALSE, v |-> v]
Panics(msg) == [panicked |-> TRUE, msg |-> msg]

\* `*t - 116444736000000000` that never overflows.
filetime_minus_epoch_exact(t) == {Returns(signed_sub_nat(t, FILETIME_EPOCH))}

\* `*t - 116444736000000000` on i64: when the difference is below i64::MIN the
\* subtraction panics in a build with overflow checks and wraps in one without.
filetime_minus_epoch(t) ==
    Let(signed_sub_nat(t, FILETIME_EPOCH), LAMBDA difference :
        IF below_i64_MIN(difference)
        THEN {Panics("attempt to subtract with overflow"), Returns(wrapping(difference))}
        ELSE {Returns(difference)})

\* AttributeValue::as_unix_timestamp: the outcomes a call may have.
as_unix_timestamp(value) ==
    CASE value.t = "LargeInteger" ->
             Let(i64_from_le_bytes(value.v), LAMBDA t :
                 IF t = Signed(FALSE, NatZero) THEN {Returns(Some(t))}
                 ELSE {IF difference.panicked THEN difference
                       ELSE Returns(Some(signed_div_pow10(difference.v,
                                                          TicksPerSecondPlaces))) :
                       difference \in filetime_minus_epoch(t)})
      [] value.t = "UTCTime" -> {Returns(Some(value.v))}
      [] OTHER -> {Returns(None)}

(***************************************************************************)
(* SpecTimestamp: one call of as_unix_timestamp on an attribute value.     *)
(***************************************************************************)
\* i64 values as their eight bytes, least significant first: 0, 1, -1,
\* 116444736000000000 and its neighbours, i64::MAX, i64::MIN, and
\* i64::MIN + 116444736000000000 with the value below it.
FiletimeEpochBytes == <<0, 128, 62, 213, 222, 177, 157, 1>>
NamedFiletimes ==
    {<<0, 0, 0, 0, 0, 0, 0, 0>>, <<1, 0, 0, 0, 0, 0, 0, 0>>,
     <<255, 255, 255, 255, 255, 255, 255, 255>>,
     FiletimeEpochBytes, <<255, 127, 62, 213, 222, 177, 157, 1>>,
     <<128, 22, 215, 213, 222, 177, 157, 1>>,
     <<255, 255, 255, 255, 255, 255, 255, 127>>,
     <<0, 0, 0, 0, 0, 0, 0, 128>>,
     <<0, 128, 62, 213, 222, 177, 157, 129>>,
     <<255, 127, 62, 213, 222, 177, 157, 129>>}

\* More of them: a low byte, six equal middle bytes and a high byte.
PatternFiletimes ==
    {<<lo, mid, mid, mid, mid, mid, mid, hi>> :
        lo \in {0, 1, 255}, mid \in {0, 90, 255}, hi \in {0, 1, 127, 128, 129, 255}}

TimestampValues ==
    {LargeIntegerValue(b) : b \in NamedFiletimes \cup PatternFiletimes}

InitTimestamp ==
    /\ pc = "call"
    /\ input \in TimestampValues
    /\ acl_rest = 0 /\ acl = None /\ outcome = None
    /\ sid_string = None /\ sid_from_str = None
    /\ dn_cache = <<>> /\ call = None /\ returned = None /\ archive = None
    /\ ace = None /\ object_type = "Unknown" /\ has_laps = FALSE /\ result = {}
    /\ sd = None /\ snapshot = None /\ aces = <<>>
    /\ ParseIdle

\* `value.as_unix_timestamp()`.
AsUnixTimestamp ==
    /\ pc = "call"
    /\ call' = Some("as_unix_timestamp")
    /\ returned' \in as_unix_timestamp(input)
    /\ pc' = "done"
    /\ UNCHANGED <<input, acl_rest, acl, outcome, sid_string, sid_from_str, dn_cache, archive,
                   rights_vars, parse_vars>>

NextTimestamp == AsUnixTimestamp

SpecTimestamp == InitTimestamp /\ [][NextTimestamp]_vars

\* C26: for a LargeInteger t, as_unix_timestamp returns 0 when t = 0 and
\* otherwise (t - 116444736000000000) / 10000000 truncated toward zero, for
\* every i64 t without an overflow of the subtraction; t = 116444736000000000
\* maps to 0 and t = 0x7FFFFFFFFFFFFFFF to a positive value.
C26_TimestampDefinedForEveryI64 ==
    (pc = "done" /\ input.t = "LargeInteger")
    => LET t == i64_from_le_bytes(input.v) IN
       /\ ~returned.panicked
       /\ returned.v
            = Some(IF t.mag = NatZero THEN t
                   ELSE signed_div_pow10(signed_sub_nat(t, FILETIME_EPOCH), 7))
       /\ input.v = FiletimeEpochBytes => returned.v = Some(Signed(FALSE, NatZero))
       /\ input.v = <<255, 255, 255, 255, 255, 255, 255, 127>>
              => ~returned.v.v.neg /\ returned.v.v.mag # NatZero

(***************************************************************************)
(* main.rs: process_outputs and add_output.  One thread runs the loop over *)
(* output_types; `input` is what is left of output_types, `call` the       *)
(* add_output in progress, `returned` the Result it is about to return,    *)
(* `outcome` the Result of process_outputs, and `archive` the              *)
(* Mutex<Builder>: [locked, entries], entries being the tar blocks written *)
(* so far, a header block and a data block per file.                       *)
(***************************************************************************)
\* output_types (main.rs:94-120).
OutputFiles == <<"domains.json", "users.json", "computers.json", "groups.json",
                 "ous.json", "containers.json", "gpos.json">>

\* What `output.to_json()` may yield: the bytes of "{}" or of "[{}]", or an
\* error of serde_json.
JsonOutcomes == {[ok |-> TRUE, v |-> <<123, 125>>],
                 [ok |-> TRUE, v |-> <<91, 123, 125, 93>>],
                 [ok |-> FALSE, v |-> <<>>]}

\* Mutex::lock on a free mutex.
lock(mutex) == [mutex EXCEPT !.locked = TRUE]

\* A guard that is not released when it goes out of scope.
guard_leaked(mutex) == mutex

\* The drop of the MutexGuard at the end of add_output, on either return.
drop_guard(mutex) == [mutex EXCEPT !.locked = FALSE]

\* The block of an entry written to the archive.
write_block(mutex, filename, part, size) ==
    [mutex EXCEPT !.entries = Append(@, [path |-> filename, part |-> part,
                                          size |-> size])]

InitArchive ==
    /\ pc = "generate"
    /\ input = OutputFiles
    /\ archive = [locked |-> FALSE, entries |-> <<>>]
    /\ call = None /\ returned = None /\ outcome = None
    /\ acl_rest = 0 /\ acl = None
    /\ sid_string = None /\ sid_from_str = None /\ dn_cache = <<>>
    /\ ace = None /\ object_type = "Unknown" /\ has_laps = FALSE /\ result = {}
    /\ sd = None /\ snapshot = None /\ aces = <<>>
    /\ ParseIdle

archive_idle_vars ==
    <<acl_rest, acl, sid_string, sid_from_str, dn_cache, rights_vars, parse_vars>>

\* The loop of process_outputs takes the next (filename, output_fn) and calls
\* output_fn() and add_output (main.rs:122-132).
Generate ==
    /\ pc = "generate" /\ input # <<>>
    /\ call' = Some([filename |-> Head(input), json |-> <<>>])
    /\ pc' = "to_json"
    /\ UNCHANGED <<input, archive, returned, outcome, archive_idle_vars>>

\* The loop is over: process_outputs returns Ok(()) (main.rs:135).
ReturnOk ==
    /\ pc = "generate" /\ input = <<>>
    /\ outcome' = Some([ok |-> TRUE])
    /\ pc' = "returned"
    /\ UNCHANGED <<input, archive, call, returned, archive_idle_vars>>

\* `output.to_json().map_err(..)?` (main.rs:149-151): on an error add_output
\* returns it before the lock is taken, and process_outputs returns it too.
ToJson ==
    /\ pc = "to_json"
    /\ \E json \in JsonOutcomes :
          IF json.ok
          THEN /\ call' = Some([call.v EXCEPT !.json = json.v])
               /\ pc' = "lock"
               /\ outcome' = outcome
          ELSE /\ call' = None
               /\ outcome' = Some([ok |-> FALSE, filename |-> call.v.filename,
                                   at |-> "to_json"])
               /\ pc' = "returned"
    /\ UNCHANGED <<input, archive, returned, archive_idle_vars>>

\* `archive.lock().unwrap()` (main.rs:155): waits until the mutex is free.
Lock ==
    /\ pc = "lock"
    /\ ~archive.locked
    /\ archive' = lock(archive)
    /\ pc' = "append_header"
    /\ UNCHANGED <<input, call, returned, outcome, archive_idle_vars>>

\* `archive.append_data(..)` (main.rs:156), the header block: written, or an
\* I/O error.
AppendHeader ==
    /\ pc = "append_header"
    /\ \/ /\ archive' = write_block(archive, call.v.filename, "header", Len(call.v.json))
          /\ pc' = "append_data"
          /\ returned' = returned
       \/ /\ archive' = archive
          /\ returned' = Some([ok |-> FALSE, at |-> "header"])
          /\ pc' = "drop_guard"
    /\ UNCHANGED <<input, call, outcome, archive_idle_vars>>

\* `archive.append_data(..)`, the data: written, or an I/O error.
AppendData ==
    /\ pc = "append_data"
    /\ \/ /\ archive' = write_block(archive, call.v.filename, "data", Len(call.v.json))
          /\ returned' = Some([ok |-> TRUE])
       \/ /\ archive' = archive
          /\ returned' = Some([ok |-> FALSE, at |-> "data"])
    /\ pc' = "drop_guard"
    /\ UNCHANGED <<input, call, outcome, archive_idle_vars>>

\* add_output returns (main.rs:156 on `?`, 160 on Ok): the guard is dropped;
\* process_outputs goes on with the next file or returns the error (`?`,
\* main.rs:132).
DropGuard ==
    /\ pc = "drop_guard"
    /\ archive' = drop_guard(archive)
    /\ call' = None /\ returned' = None
    /\ IF returned.v.ok
       THEN /\ input' = Tail(input)
            /\ pc' = "generate"
            /\ outcome' = outcome
       ELSE /\ input' = input
            /\ outcome' = Some([ok |-> FALSE, filename |-> call.v.filename,
                                at |-> returned.v.at])
            /\ pc' = "returned"
    /\ UNCHANGED archive_idle_vars

NextArchive ==
    \/ Generate
    \/ ReturnOk
    \/ ToJson
    \/ Lock
    \/ AppendHeader
    \/ AppendData
    \/ DropGuard

SpecArchive == InitArchive /\ [][NextArchive]_vars

\* The one thread of main keeps running until process_outputs returns.
SpecArchiveLive == SpecArchive /\ WF_vars(NextArchive)

(***************************************************************************)
(* Claims about the archive writer, checked under SpecArchiveLive.         *)
(***************************************************************************)
\* The whole entry of the file is in the archive.
Written(filename) ==
    \E i \in 1..Len(archive.entries) :
        archive.entries[i].path = filename /\ archive.entries[i].part = "data"

\* add_output is between append_data's first write and its return.
InsideArchive == pc \in {"append_header", "append_data", "drop_guard"}

\* The mutex is held exactly while add_output is inside the archive, and
\* every header block is followed by the data block of the same file, unless
\* it is the last block written.
ArchiveExclusion ==
    /\ InsideArchive <=> archive.locked
    /\ \A i \in 1..Len(archive.entries) :
          IF archive.entries[i].part = "header"
          THEN i < Len(archive.entries)
                   => /\ archive.entries[i + 1].part = "data"
                      /\ archive.entries[i + 1].path = archive.entries[i].path
          ELSE /\ i > 1
               /\ archive.entries[i - 1].part = "header"
               /\ archive.entries[i - 1].path = archive.entries[i].path
    /\ (~InsideArchive /\ archive.entries # <<>>)
          => \/ archive.entries[Len(archive.entries)].part = "data"
             \/ pc = "returned" /\ outcome.v.at = "data"

\* The entries of the files before position k of output_types are in the
\* archive, and those from k on are not.
WrittenBefore(k) ==
    \A i \in 1..Len(OutputFiles) : Written(OutputFiles[i]) <=> i < k

=============================================================================
